---- MODULE Spec2Model ----
(***************************************************************************)
(* A model of the population-based training core of                        *)
(* Alvtron/PopulationBasedTraining:                                        *)
(*   - the worker pool and the training service (pbt/worker_pool.py,       *)
(*     pbt/trainingservice.py) with their workers,                         *)
(*   - the controller's generational loop (pbt/controller.py),             *)
(*   - the SHADE / L-SHADE external archive (pbt/evolution.py).            *)
(* Each component has a specification of its own (SpecPool, SpecCtl,       *)
(* SpecEvo); the variables of the other components rest at their initial   *)
(* values.                                                                 *)
(*                                                                         *)
(* pbt/worker.py and pbt/member.py are not among the source files: the     *)
(* worker's loop and the member ordering are modelled from the             *)
(* specification (sections 3, 4.6 and 5).  The controller names the        *)
(* evolver's hooks on_evolve / on_evaluate and uses the five-argument      *)
(* train(); these are the hooks evolution.py calls mutate / select and the *)
(* train() of worker_pool.py.                                              *)
(***************************************************************************)
EXTENDS Integers, Sequences, FiniteSets, TLC

\* ------------------------------------------------------------------------
\* Bounds of the model
\* ------------------------------------------------------------------------
\* n_jobs: the number of workers of a pool
NJobs == 2
\* the largest number of candidates handed to one train() call
MaxJobs == 2
\* the number of train() calls a client makes
MaxCalls == 2

\* ------------------------------------------------------------------------
\* Worker pool, training service and workers
\* ------------------------------------------------------------------------
VARIABLES
    svc,        \* which class the client drives: "WorkerPool" or "TrainingService"
    nDevices,   \* len(devices): the number of receive queues of a WorkerPool
    wstate,     \* worker -> "new" | "check" | "get" | "busy" | "dead" | "closed"
    wjob,       \* worker -> the trial it is training (NoJob when none)
    recvQ,      \* queue index -> sequence of trials and STOP_FLAGs
    endEvent,   \* the shared end event
    rr,         \* position of the WorkerPool's cyclic worker iterator
    tsStale,    \* TrainingService: the workers of earlier start() calls that
                \* _workers still lists: "no" (none) | "dead" | "closed"
    call,       \* number of train() calls made so far
    tpc,        \* the train() generator: "idle" | "waiting" (inside next()) |
                \* "yielded" (suspended at its yield) | "ended" | "abandoned"
    nSent,      \* n_sent of the running train() call
    nReturned,  \* n_returned of the running train() call
    failed,     \* failed_workers of the running train() call
    returnQ,    \* the return queue the train() call reads
    outcome,    \* how the last train() call ended
    yielded,    \* the results the train() call has yielded, in order
    completed,  \* the jobs of this call in the order the workers completed them
    crashed,    \* the workers that have published a FailMessage
    spc,        \* stop(): "idle" | "joining"
    lastCall,   \* the last start()/stop() call: what it found and how it ended
    handed      \* the jobs submitted since construction, in order, each with the
                \* worker the cyclic iterator yielded for it

poolVars == <<svc, nDevices, wstate, wjob, recvQ, endEvent, rr, tsStale, call, tpc,
              nSent, nReturned, failed, returnQ, outcome, yielded, completed,
              crashed, spc, lastCall, handed>>

\* the controller (pbt/controller.py)
VARIABLES
    population_size,  \* Controller.population_size
    evolver,          \* "ExploitAndExplore" | "DifferentialEvolution"
    minimize,         \* the members' minimize flag
    end_criteria,     \* [steps, nfe, score]: a value, or None for an absent or null key
    cpc,              \* "created" | "initial" | "loop" | "evolve" | "train" |
                      \* "returned" | "raised"
    nfe,              \* Controller.nfe
    generations,      \* len(population.generations)
    current,          \* population.current: member id -> [steps, score]
    new_generation,   \* the generation being built: member id -> [steps, score]
    candidates,       \* the candidates submitted to train() and not yet returned
    hooks,            \* the evolver hooks called so far, in order
    selects,          \* number of evolver select calls made so far
    stops,            \* number of training_service.stop() calls made so far
    left,             \* how start() left the loop: "no" | "criteria" |
                      \* "interrupted" | "error"
    database,         \* the checkpoint store: member id -> the steps of its
                      \* snapshots, in the order database.update() persisted them
    returned          \* the last result train() yielded: the member's id,
                      \* whether it carries a trained state, the scores of
                      \* the trained parent and trial

ctlVars == <<population_size, evolver, minimize, end_criteria, cpc, nfe, generations,
             current, new_generation, candidates, hooks, selects, stops, left,
             database, returned>>

\* the evolver (pbt/evolution.py)
VARIABLES
    engine,        \* "DifferentialEvolution" | "SHADE" | "LSHADE"
    N_INIT,        \* SHADE.N_INIT
    MAX_NFE,       \* LSHADE.MAX_NFE
    r_arc,         \* SHADE.r_arc, the rational [num, den]
    archive,       \* SHADE.archive: the archived parents (their scores), in order
    archive_size,  \* SHADE.archive.size, the rational [num, den]
    memory,        \* SHADE.memory: [m_cr, m_f, s_cr, s_f, weights, k]
    CR,            \* SHADE.CR: member id -> CR_i, in units of 1 / Grid
    F,             \* SHADE.F: member id -> F_i, in units of 1 / Grid
    lshade_nfe,    \* LSHADE._nfe
    generation,    \* the generation the evolver works on: member id -> score
    unselected,    \* the members of the generation whose select is still to come
    epc,           \* "start" | "mutate" | "select" | "raised": where the
                   \* evolver's generation stands
    lastAppend,    \* the last ExternalArchive.append: length before and after, capacity
    lastSelect,    \* the last select: the scores of parent and trial, the
                   \* candidate returned
    memop          \* the last method called on the memory: "init" | "record" |
                   \* "reset" | "update"

evoConfig == <<engine, N_INIT, MAX_NFE, r_arc>>
evoVars == <<evoConfig, archive, archive_size, memory, CR, F, lshade_nfe,
             generation, unselected, epc, lastAppend, lastSelect, memop>>

\* the candidates' coordinates (pbt/evolution.py)
VARIABLES
    emitted        \* the last coordinate an evolver's mutate wrote to a candidate:
                   \* the evolver, what it drew and read, the value before any
                   \* constraint (raw) and the value written (u)

\* a hyperparameter object (PopulationBasedTraining/hyperparameters.py)
VARIABLES
    hp,            \* the Hyperparameter: whether its construction raised, the
                   \* interpreter's __debug__, is_categorical, _search_space,
                   \* the type of each bound, _value and the calls made on it
    hpcall         \* the last call on it: the method, its argument, _value
                   \* before the call, what it raised and what it returned

hpVars == <<hp, hpcall>>

\* pure functions of the evolvers (pbt/evolution.py)
VARIABLES
    ee,            \* ExploitAndExplore.mutate: the generation it is handed, the
                   \* members' minimize, exploit_factor and the candidates
                   \* yielded so far
    gcp            \* SHADE.get_control_parameters: the historical memory, the
                   \* interpreter's __debug__, the last call (r1, what it
                   \* raised, the pair returned), the evolver's class, guide
                   \* and MAX_NFE, and the pair its own
                   \* get_control_parameters made of the call

fnVars == <<hpVars, ee, gcp>>
mutVars == <<emitted, fnVars>>

Workers == 0 .. (NJobs - 1)
STOP_FLAG == [kind |-> "stop"]
NoJob == [kind |-> "none"]
Trial(c, j) == [kind |-> "trial", call |-> c, id |-> j]
Result(t, w) == [kind |-> "result", call |-> t.call, id |-> t.id, worker |-> w]
FailMessage(w) == [kind |-> "fail", sender_id |-> w]
NoCall ==
    [op |-> "none", started |-> FALSE, closed |-> FALSE, running |-> FALSE, result |-> "none",
     before |-> {}, after |-> {}]

\* Worker.is_alive(): started and not yet terminated
IsAlive(w) == wstate[w] \in {"check", "get", "busy"}
AliveSet == {w \in Workers : IsAlive(w)}

\* The receive queue of worker w.  WorkerPool: one queue per device, dealt
\* to the workers cyclically; TrainingService: the one send queue.
QueueOf(w) == IF svc = "WorkerPool" THEN w % nDevices ELSE 0

\* a cyclic iterator built anew by every train() call
workers_iterator_restarted(k) == (k - 1) % NJobs

\* the worker itertools.cycle(self._workers) yields for the k-th job of a
\* train() call: the iterator is built once, in __init__, and goes on from
\* where the last call left it
workers_iterator(k) == (rr + k - 1) % NJobs

RECURSIVE PutAll(_, _, _, _)
\* the receive queues after trials k..n of call c have been put, trial k on
\* the queue of the worker the cyclic iterator yields for it
PutAll(q, c, k, n) ==
    IF k > n THEN q
    ELSE LET w == workers_iterator(k)
         IN  PutAll([q EXCEPT ![QueueOf(w)] = Append(@, Trial(c, k))], c, k + 1, n)

\* the pairs zip(candidates, self._workers_iterator) yields in call c
Zipped(c, n) == [k \in 1 .. n |-> [call |-> c, id |-> k, worker |-> workers_iterator(k)]]

InitPool ==
    /\ svc \in {"WorkerPool", "TrainingService"}
    /\ nDevices \in 1 .. NJobs
    /\ svc = "TrainingService" => nDevices = 1
    /\ wstate = [w \in Workers |-> "new"]
    /\ wjob = [w \in Workers |-> NoJob]
    /\ recvQ = [q \in 0 .. (NJobs - 1) |-> <<>>]
    /\ endEvent = FALSE
    /\ rr = 0
    /\ tsStale = "no"
    /\ call = 0
    /\ tpc = "idle"
    /\ nSent = 0
    /\ nReturned = 0
    /\ failed = {}
    /\ returnQ = <<>>
    /\ outcome = "none"
    /\ yielded = <<>>
    /\ completed = <<>>
    /\ crashed = {}
    /\ spc = "idle"
    /\ lastCall = NoCall
    /\ handed = <<>>

IdlePool ==
    /\ svc = "WorkerPool"
    /\ nDevices = 1
    /\ wstate = [w \in Workers |-> "new"]
    /\ wjob = [w \in Workers |-> NoJob]
    /\ recvQ = [q \in 0 .. (NJobs - 1) |-> <<>>]
    /\ endEvent = FALSE
    /\ rr = 0
    /\ tsStale = "no"
    /\ call = 0
    /\ tpc = "idle"
    /\ nSent = 0
    /\ nReturned = 0
    /\ failed = {}
    /\ returnQ = <<>>
    /\ outcome = "none"
    /\ yielded = <<>>
    /\ completed = <<>>
    /\ crashed = {}
    /\ spc = "idle"
    /\ lastCall = NoCall
    /\ handed = <<>>

\* --- the worker's loop (pbt/worker.py, modelled from the specification) ---

\* before each dequeue the worker observes the end event
Worker_check(w) ==
    /\ wstate[w] = "check"
    /\ wstate' = [wstate EXCEPT ![w] = IF endEvent THEN "dead" ELSE "get"]
    /\ UNCHANGED <<svc, nDevices, wjob, recvQ, endEvent, rr, tsStale, call, tpc, nSent,
                   nReturned, failed, returnQ, outcome, yielded, completed, crashed,
                   spc, lastCall, handed>>
    /\ UNCHANGED <<ctlVars, evoVars, mutVars>>

\* the blocking dequeue: a STOP_FLAG ends the worker, a trial is trained
Worker_get(w) ==
    /\ wstate[w] = "get"
    /\ recvQ[QueueOf(w)] # <<>>
    /\ LET item == Head(recvQ[QueueOf(w)])
       IN  /\ recvQ' = [recvQ EXCEPT ![QueueOf(w)] = Tail(@)]
           /\ IF item = STOP_FLAG
                THEN wstate' = [wstate EXCEPT ![w] = "dead"] /\ UNCHANGED wjob
                ELSE /\ wstate' = [wstate EXCEPT ![w] = "busy"]
                     /\ wjob' = [wjob EXCEPT ![w] = item]
    /\ UNCHANGED <<svc, nDevices, endEvent, rr, tsStale, call, tpc, nSent, nReturned,
                   failed, returnQ, outcome, yielded, completed, crashed, spc, lastCall,
                   handed>>
    /\ UNCHANGED <<ctlVars, evoVars, mutVars>>

\* The return queue a message about trial t reaches.  A WorkerPool trial
\* carries the return queue of its own train() call, which only that call
\* reads; the TrainingService has one return queue for all calls.
Reaches(t) == svc = "TrainingService" \/ (t.call = call /\ tpc \in {"waiting", "yielded"})

\* the trained member (or tuple) is put on the trial's return queue
Worker_finish(w) ==
    /\ wstate[w] = "busy"
    /\ wstate' = [wstate EXCEPT ![w] = "check"]
    /\ wjob' = [wjob EXCEPT ![w] = NoJob]
    /\ returnQ' = IF Reaches(wjob[w]) THEN Append(returnQ, Result(wjob[w], w)) ELSE returnQ
    /\ completed' = IF wjob[w].call = call THEN Append(completed, wjob[w].id) ELSE completed
    /\ UNCHANGED <<svc, nDevices, recvQ, endEvent, rr, tsStale, call, tpc, nSent,
                   nReturned, failed, outcome, yielded, crashed, spc, lastCall, handed>>
    /\ UNCHANGED <<ctlVars, evoVars, mutVars>>

\* a worker that fails publishes a FailMessage and is lost to the pool
Worker_fail(w) ==
    /\ wstate[w] = "busy"
    /\ wstate' = [wstate EXCEPT ![w] = "dead"]
    /\ wjob' = [wjob EXCEPT ![w] = NoJob]
    /\ returnQ' = IF Reaches(wjob[w]) THEN Append(returnQ, FailMessage(w)) ELSE returnQ
    /\ crashed' = crashed \cup {w}
    /\ UNCHANGED <<svc, nDevices, recvQ, endEvent, rr, tsStale, call, tpc, nSent,
                   nReturned, failed, outcome, yielded, completed, spc, lastCall, handed>>
    /\ UNCHANGED <<ctlVars, evoVars, mutVars>>

\* --- WorkerPool (pbt/worker_pool.py) ---

\* A call of start() or stop() as the client sees it: whether a worker had
\* ever been started, whether one was closed and whether one was alive when
\* it was made, how it ended, the live workers before and after.
Call(op, res, after) ==
    [op |-> op, started |-> (\E w \in Workers : wstate[w] # "new"),
     closed |-> (tsStale = "closed" \/ \E w \in Workers : wstate[w] = "closed"),
     running |-> AliveSet # {}, result |-> res, before |-> AliveSet, after |-> after]

\* a start() that calls all() where the code calls any()
IsRunning_all == \A w \in Workers : IsAlive(w)

\* any(worker.is_alive() for worker in self._workers)
IsRunning == AliveSet # {}

\* The client is free to call start() or stop(): it is not inside next() of
\* a train() generator nor inside stop()'s joins.
ClientFree == spc = "idle" /\ tpc # "waiting"

\* The client calls train() as the controller does: the generator of the
\* call before, if any, has been run to its end.
TrainFree == spc = "idle" /\ tpc \in {"idle", "ended"}

\* start(): is_alive() of a closed process raises ValueError, start() of a
\* process that has run raises AssertionError
WorkerPool_start ==
    /\ svc = "WorkerPool"
    /\ ClientFree
    /\ IF \E w \in Workers : wstate[w] = "closed"
         THEN /\ lastCall' = Call("start", "error_closed", AliveSet)
              /\ UNCHANGED wstate
         ELSE IF IsRunning
                THEN /\ lastCall' = Call("start", "error_already_running", AliveSet)
                     /\ UNCHANGED wstate
         ELSE IF \A w \in Workers : wstate[w] = "new"
                THEN /\ wstate' = [w \in Workers |-> "check"]
                     /\ lastCall' = Call("start", "ok", Workers)
                ELSE /\ lastCall' = Call("start", "error_cannot_restart", AliveSet)
                     /\ UNCHANGED wstate
    /\ UNCHANGED <<svc, nDevices, wjob, recvQ, endEvent, rr, tsStale, call, tpc, nSent,
                   nReturned, failed, returnQ, outcome, yielded, completed, crashed, spc,
                   handed>>
    /\ UNCHANGED <<ctlVars, evoVars, mutVars>>

\* the receive queues after stop() has put one STOP_FLAG per worker
RECURSIVE PutStops(_, _)
PutStops(q, k) ==
    IF k = NJobs THEN q
    ELSE PutStops([q EXCEPT ![QueueOf(k)] = Append(@, STOP_FLAG)], k + 1)

\* stop() up to its joins: the guard, the end event, the STOP_FLAGs;
\* is_alive() of a closed process raises ValueError
WorkerPool_stop ==
    /\ svc = "WorkerPool"
    /\ ClientFree
    /\ IF \E w \in Workers : wstate[w] = "closed"
         THEN /\ lastCall' = Call("stop", "error_closed", AliveSet)
              /\ UNCHANGED <<endEvent, recvQ, spc, tpc>>
         ELSE IF ~IsRunning
                THEN /\ lastCall' = Call("stop", "warned_not_running", AliveSet)
                     /\ UNCHANGED <<endEvent, recvQ, spc, tpc>>
         ELSE /\ endEvent' = TRUE
              /\ recvQ' = PutStops(recvQ, 0)
              /\ spc' = "joining"
              /\ tpc' = IF tpc = "yielded" THEN "abandoned" ELSE tpc
              /\ lastCall' = Call("stop", "joining", AliveSet)
    /\ UNCHANGED <<svc, nDevices, wstate, wjob, rr, tsStale, call, nSent, nReturned,
                   failed, returnQ, outcome, yielded, completed, crashed, handed>>
    /\ UNCHANGED <<ctlVars, evoVars, mutVars>>

\* stop() from its joins on: every join has returned, every worker is closed
WorkerPool_stop_join ==
    /\ svc = "WorkerPool"
    /\ spc = "joining"
    /\ AliveSet = {}
    /\ spc' = "idle"
    /\ wstate' = [w \in Workers |-> "closed"]
    /\ lastCall' = [lastCall EXCEPT !.result = "returned", !.after = AliveSet]
    /\ UNCHANGED <<svc, nDevices, wjob, recvQ, endEvent, rr, tsStale, call, tpc,
                   nSent, nReturned, failed, returnQ, outcome, yielded, completed,
                   crashed, handed>>
    /\ UNCHANGED <<ctlVars, evoVars, mutVars>>

\* train(): the first next() of the generator creates the return queue and
\* queues the n candidates, one per worker of the cyclic iterator
WorkerPool_train(n) ==
    /\ svc = "WorkerPool"
    /\ TrainFree
    /\ call < MaxCalls
    /\ call' = call + 1
    /\ recvQ' = PutAll(recvQ, call + 1, 1, n)
    /\ handed' = handed \o Zipped(call + 1, n)
    /\ rr' = workers_iterator(n + 1)
    /\ nSent' = n
    /\ nReturned' = 0
    /\ failed' = {}
    /\ returnQ' = <<>>
    /\ yielded' = <<>>
    /\ completed' = <<>>
    /\ outcome' = "none"
    /\ tpc' = "waiting"
    /\ UNCHANGED <<svc, nDevices, wstate, wjob, endEvent, tsStale, crashed, spc, lastCall>>
    /\ UNCHANGED <<ctlVars, evoVars, mutVars>>

\* a loop that stops one result short
TrainLoopCondition_short == nReturned + 1 < nSent /\ Cardinality(failed) < NJobs

\* the condition of train()'s while loop
TrainLoopCondition == nReturned # nSent /\ Cardinality(failed) < NJobs

\* one round of the loop: the blocking get, then a FailMessage is noted and
\* the loop continues, or the result is counted and yielded
WorkerPool_train_get ==
    /\ svc = "WorkerPool"
    /\ tpc = "waiting"
    /\ TrainLoopCondition
    /\ returnQ # <<>>
    /\ returnQ' = Tail(returnQ)
    /\ IF Head(returnQ).kind = "fail"
         THEN /\ failed' = failed \cup {Head(returnQ).sender_id}
              /\ UNCHANGED <<nReturned, yielded, tpc>>
         ELSE /\ nReturned' = nReturned + 1
              /\ yielded' = Append(yielded, Head(returnQ).id)
              /\ tpc' = "yielded"
              /\ UNCHANGED failed
    /\ UNCHANGED <<svc, nDevices, wstate, wjob, recvQ, endEvent, rr, tsStale, call, nSent,
                   outcome, completed, crashed, spc, lastCall, handed>>
    /\ UNCHANGED <<ctlVars, evoVars, mutVars>>

\* the client asks the suspended generator for the next result
Train_next ==
    /\ tpc = "yielded"
    /\ spc = "idle"
    /\ tpc' = "waiting"
    /\ UNCHANGED <<svc, nDevices, wstate, wjob, recvQ, endEvent, rr, tsStale, call, nSent,
                   nReturned, failed, returnQ, outcome, yielded, completed, crashed,
                   spc, lastCall, handed>>
    /\ UNCHANGED <<ctlVars, evoVars, mutVars>>

\* the checks after the loop with the lost candidates looked at before the
\* failed workers
TrainOutcome_unordered ==
    IF returnQ # <<>> THEN "error_return_queue_not_empty"
    ELSE IF nReturned < nSent
           THEN (IF failed # {} THEN "error_workers_failed" ELSE "error_candidates_failed")
    ELSE IF Cardinality(failed) = NJobs THEN "error_all_workers_failed"
    ELSE IF failed # {} THEN "error_respawn"
    ELSE "ok"

\* how train() ends once its loop is left
TrainOutcome ==
    IF returnQ # <<>> THEN "error_return_queue_not_empty"
    ELSE IF Cardinality(failed) = NJobs THEN "error_all_workers_failed"
    ELSE IF nReturned < nSent
           THEN (IF failed # {} THEN "error_workers_failed" ELSE "error_candidates_failed")
    ELSE IF failed # {} THEN "error_respawn"  \* _respawn() is handed the set
    ELSE "ok"

WorkerPool_train_end ==
    /\ svc = "WorkerPool"
    /\ tpc = "waiting"
    /\ ~TrainLoopCondition
    /\ outcome' = TrainOutcome
    /\ tpc' = "ended"
    /\ UNCHANGED <<svc, nDevices, wstate, wjob, recvQ, endEvent, rr, tsStale, call, nSent,
                   nReturned, failed, returnQ, yielded, completed, crashed, spc, lastCall,
                   handed>>
    /\ UNCHANGED <<ctlVars, evoVars, mutVars>>

\* --- TrainingService (pbt/trainingservice.py) ---

\* the state of the first worker of _workers: a worker of an earlier
\* start() when there is one, else worker 0
FirstWorker == IF tsStale # "no" THEN tsStale ELSE wstate[0]

TrainingService_start ==
    /\ svc = "TrainingService"
    /\ ClientFree
    /\ IF FirstWorker = "closed"
         THEN \* is_alive() of a closed process raises ValueError
              /\ lastCall' = Call("start", "error_closed", AliveSet)
              /\ UNCHANGED <<wstate, wjob, endEvent, tsStale>>
         ELSE IF IsRunning
                THEN /\ lastCall' = Call("start", "error_already_running", AliveSet)
                     /\ UNCHANGED <<wstate, wjob, endEvent, tsStale>>
         ELSE \* a new end event and n_jobs new workers, appended to _workers
              /\ endEvent' = FALSE
              /\ wstate' = [w \in Workers |-> "check"]
              /\ wjob' = [w \in Workers |-> NoJob]
              /\ tsStale' = IF \A w \in Workers : wstate[w] = "new" THEN tsStale ELSE "dead"
              /\ lastCall' = Call("start", "ok", Workers)
    /\ UNCHANGED <<svc, nDevices, recvQ, rr, call, tpc, nSent, nReturned, failed,
                   returnQ, outcome, yielded, completed, crashed, spc, handed>>
    /\ UNCHANGED <<ctlVars, evoVars, mutVars>>

\* stop()'s guard: "not self._workers or all(worker.is_alive() ...)"
TrainingService_not_running ==
    \/ (tsStale = "no" /\ \A w \in Workers : wstate[w] = "new")
    \/ (tsStale = "no" /\ \A w \in Workers : IsAlive(w))

\* stop(): the guard; then close() and join() of the first worker, where
\* close() of a live process raises ValueError and so does join() of the
\* process just closed.  No worker is signalled, the end event is not set.
TrainingService_stop ==
    /\ svc = "TrainingService"
    /\ ClientFree
    /\ IF FirstWorker = "closed"
         THEN /\ lastCall' = Call("stop", "error_closed", AliveSet)
              /\ UNCHANGED <<wstate, tsStale>>
         ELSE IF TrainingService_not_running
                THEN /\ lastCall' = Call("stop", "warned_not_running", AliveSet)
                     /\ UNCHANGED <<wstate, tsStale>>
         ELSE IF FirstWorker = "dead"
                THEN /\ lastCall' = Call("stop", "error_closed", AliveSet)
                     /\ tsStale' = IF tsStale = "no" THEN "no" ELSE "closed"
                     /\ wstate' = IF tsStale = "no" THEN [wstate EXCEPT ![0] = "closed"]
                                  ELSE wstate
         ELSE /\ lastCall' = Call("stop", "error_close_running", AliveSet)
              /\ UNCHANGED <<wstate, tsStale>>
    /\ UNCHANGED <<svc, nDevices, wjob, recvQ, endEvent, rr, call, tpc, spc,
                   nSent, nReturned, failed, returnQ, outcome, yielded, completed,
                   crashed, handed>>
    /\ UNCHANGED <<ctlVars, evoVars, mutVars>>

\* train(): every candidate is put on the send queue
TrainingService_train(n) ==
    /\ svc = "TrainingService"
    /\ TrainFree
    /\ call < MaxCalls
    /\ call' = call + 1
    /\ recvQ' = PutAll(recvQ, call + 1, 1, n)
    /\ nSent' = n
    /\ nReturned' = 0
    /\ yielded' = <<>>
    /\ completed' = <<>>
    /\ outcome' = "none"
    /\ tpc' = "waiting"
    /\ UNCHANGED <<svc, nDevices, wstate, wjob, endEvent, rr, tsStale, failed, returnQ,
                   crashed, spc, lastCall, handed>>
    /\ UNCHANGED <<ctlVars, evoVars, mutVars>>

\* "for _ in candidates: yield self._return_queue.get()"
TrainingService_train_get ==
    /\ svc = "TrainingService"
    /\ tpc = "waiting"
    /\ nReturned < nSent
    /\ returnQ # <<>>
    /\ returnQ' = Tail(returnQ)
    /\ nReturned' = nReturned + 1
    /\ yielded' = Append(yielded, IF Head(returnQ).kind = "fail" THEN 0 ELSE Head(returnQ).id)
    /\ tpc' = "yielded"
    /\ UNCHANGED <<svc, nDevices, wstate, wjob, recvQ, endEvent, rr, tsStale, call, nSent,
                   failed, outcome, completed, crashed, spc, lastCall, handed>>
    /\ UNCHANGED <<ctlVars, evoVars, mutVars>>

TrainingService_train_end ==
    /\ svc = "TrainingService"
    /\ tpc = "waiting"
    /\ nReturned = nSent
    /\ outcome' = "ok"
    /\ tpc' = "ended"
    /\ UNCHANGED <<svc, nDevices, wstate, wjob, recvQ, endEvent, rr, tsStale, call, nSent,
                   nReturned, failed, returnQ, yielded, completed, crashed, spc, lastCall,
                   handed>>
    /\ UNCHANGED <<ctlVars, evoVars, mutVars>>

\* ------------------------------------------------------------------------
\* Controller (pbt/controller.py)
\* ------------------------------------------------------------------------
\* population_size: the largest population of a run
MaxPop == 3
\* the largest score a trained member gets (scores are 0 .. MaxScore)
MaxScore == 1
\* the number of generations a run evolves before the model leaves it
MaxGen == 2

\* the value of an absent key of end_criteria, or None
None == 0 - 1
\* step_size of the controller: the steps one train() adds to a member
step_size == 1
Scores == 0 .. MaxScore
EmptyGeneration == [i \in {} |-> 0]
\* the checkpoint store before the first update
EmptyDatabase == [i \in 0 .. (MaxPop - 1) |-> <<>>]
\* a store that files each snapshot before the earlier ones
Database_update_front(db, id, steps) == [db EXCEPT ![id] = <<steps>> \o @]
\* a store that keeps only the first snapshot of an id
Database_update_once(db, id, steps) ==
    IF db[id] = <<>> THEN [db EXCEPT ![id] = <<steps>>] ELSE db
\* database.update(member.id, member.steps, member): one more snapshot of id
Database_update(db, id, steps) == [db EXCEPT ![id] = Append(@, steps)]
\* member.steps after train() has trained the member for step_size steps
TrainedSteps(steps) == steps + step_size
Member(st, sc) == [steps |-> st, score |-> sc]

\* The member ordering (pbt/member.py, modelled from the specification,
\* section 3): when minimizing, the smaller score is the greater member.
MemberLE(a, b) == IF minimize THEN a.score >= b.score ELSE a.score <= b.score
\* member >= threshold: the member meets the score target
MemberReaches(m, threshold) ==
    IF minimize THEN m.score <= threshold ELSE m.score >= threshold

\* Python's truth value of an end_criteria entry: None and 0 are false
Truthy(v) == v # None /\ v # 0

is_member_finished(m) == Truthy(end_criteria.steps) /\ m.steps >= end_criteria.steps

is_population_finished ==
    \/ (Truthy(end_criteria.nfe) /\ nfe >= end_criteria.nfe)
    \/ (Truthy(end_criteria.score)
        /\ \E i \in DOMAIN current : MemberReaches(current[i], end_criteria.score))
    \/ \A i \in DOMAIN current : is_member_finished(current[i])

\* the end criteria a run is configured with
EndCriteria ==
    {[steps |-> s, nfe |-> None, score |-> None] : s \in {None, 0, 2}}
    \cup {[steps |-> None, nfe |-> n, score |-> None] : n \in {0, 1, 3}}
    \cup {[steps |-> None, nfe |-> None, score |-> t] : t \in {0, 1}}
    \cup {[steps |-> 2, nfe |-> 3, score |-> 1]}

\* no member has been yielded yet
NoMember == [id |-> 0 - 1, has_state |-> TRUE, parent_score |-> 0, trial_score |-> 0]

InitCtl ==
    /\ population_size \in 0 .. MaxPop
    /\ evolver \in {"ExploitAndExplore", "DifferentialEvolution"}
    /\ minimize \in BOOLEAN
    /\ end_criteria \in EndCriteria
    /\ cpc = "created"
    /\ nfe = 0
    /\ generations = 0
    /\ current = EmptyGeneration
    /\ new_generation = EmptyGeneration
    /\ candidates = {}
    /\ hooks = <<>>
    /\ selects = 0
    /\ stops = 0
    /\ left = "no"
    /\ database = EmptyDatabase
    /\ returned = NoMember

\* the controller at rest, its members minimizing or not
IdleCtlWith(min) ==
    /\ population_size = 0
    /\ evolver = "ExploitAndExplore"
    /\ minimize = min
    /\ end_criteria = [steps |-> None, nfe |-> None, score |-> None]
    /\ cpc = "created"
    /\ nfe = 0
    /\ generations = 0
    /\ current = EmptyGeneration
    /\ new_generation = EmptyGeneration
    /\ candidates = {}
    /\ hooks = <<>>
    /\ selects = 0
    /\ stops = 0
    /\ left = "no"
    /\ database = EmptyDatabase
    /\ returned = NoMember

IdleCtl == IdleCtlWith(FALSE)

\* a start() that stops the training service after the loop, not in a
\* finally clause
Leave_quiet(how) ==
    [pc |-> IF how \in {"criteria", "interrupted"} THEN "returned" ELSE "raised",
     stops |-> IF how = "criteria" THEN stops + 1 ELSE stops]

\* start()'s try / except KeyboardInterrupt / finally: where the controller
\* ends and whether __on_end() has stopped the training service
Leave(how) ==
    [pc |-> IF how \in {"criteria", "interrupted"} THEN "returned" ELSE "raised",
     stops |-> stops + 1]

\* start() up to the first result of the initial generation: __on_start(),
\* then __create_initial_generation() hands the new members to train()
Controller_start ==
    /\ cpc = "created"
    /\ nfe' = 0
    /\ generations' = 0
    /\ new_generation' = EmptyGeneration
    /\ candidates' = {[id |-> i, parent |-> i, steps |-> 0, from |-> 0] :
                          i \in 0 .. (population_size - 1)}
    /\ cpc' = "initial"
    /\ UNCHANGED <<population_size, evolver, minimize, end_criteria, current, hooks,
                   selects, stops, left, database, returned>>
    /\ UNCHANGED <<poolVars, evoVars, mutVars>>

\* a trained member of the initial generation arrives: it is appended
Controller_initial_member(c, sc, has_state) ==
    /\ cpc = "initial"
    /\ c \in candidates
    /\ candidates' = candidates \ {c}
    /\ returned' = [id |-> c.id, has_state |-> has_state, parent_score |-> sc,
                    trial_score |-> sc]
    /\ new_generation' = (c.id :> Member(TrainedSteps(c.steps), sc)) @@ new_generation
    /\ database' = Database_update(database, c.id, TrainedSteps(c.steps))
    /\ UNCHANGED <<population_size, evolver, minimize, end_criteria, cpc, nfe,
                   generations, current, hooks, selects, stops, left>>
    /\ UNCHANGED <<poolVars, evoVars, mutVars>>

\* train() is exhausted: the initial generation becomes the current one
Controller_initial_done ==
    /\ cpc = "initial"
    /\ candidates = {}
    /\ current' = new_generation
    /\ new_generation' = EmptyGeneration
    /\ generations' = 1
    /\ cpc' = "loop"
    /\ UNCHANGED <<population_size, evolver, minimize, end_criteria, nfe, candidates,
                   hooks, selects, stops, left, database, returned>>
    /\ UNCHANGED <<poolVars, evoVars, mutVars>>

\* an on_evolve() handed the generation under construction
MutateSource_new == [members |-> new_generation, index |-> generations]

\* The generation on_evolve() is handed: population.current, the last
\* generation appended to the population.
MutateSource == [members |-> current, index |-> generations - 1]

\* an NFE count that adds the size of the batch still in training
CountEvaluation_batch(n) == n + Cardinality(candidates)

\* the number of fitness evaluations one select adds to Controller.nfe
CountEvaluation(n) == n + 1

\* "for candidates in train(...)" has no further result to wait for
TrainExhausted == candidates = {}

\* the head of the while loop: the run ends, or on_generation_start() is
\* called and a new generation is created
Controller_loop ==
    /\ cpc = "loop"
    /\ IF is_population_finished
         THEN /\ cpc' = Leave("criteria").pc
              /\ stops' = Leave("criteria").stops
              /\ left' = "criteria"
              /\ UNCHANGED <<hooks, new_generation>>
         ELSE /\ generations <= MaxGen
              /\ hooks' = Append(hooks, [hook |-> "on_generation_start",
                                         gen |-> generations - 1, n |-> 0])
              /\ new_generation' = EmptyGeneration
              /\ cpc' = "evolve"
              /\ UNCHANGED <<stops, left>>
    /\ UNCHANGED <<population_size, evolver, minimize, end_criteria, nfe, generations,
                   current, candidates, selects, database, returned>>
    /\ UNCHANGED <<poolVars, evoVars, mutVars>>

\* a greatest member of a generation, as sorted(generation, reverse=True)[0]
Elitist(members) ==
    CHOOSE e \in DOMAIN members : \A m \in DOMAIN members : MemberLE(members[m], members[e])

\* a candidate that takes the id of the elitist it copies from
CandidateId_elitist(member_id, elitist_id) == elitist_id

\* the id of the candidate mutate builds for a member: member.copy() keeps
\* the id; copy_parameters(elitist) and copy_state(elitist) leave it alone
CandidateId(member_id, elitist_id) == member_id

\* new_candidates = list(on_evolve(current)), handed to train().
\* DifferentialEvolution.mutate refuses a generation of fewer than 3.
Controller_evolve ==
    /\ cpc = "evolve"
    /\ IF evolver = "DifferentialEvolution" /\ Cardinality(DOMAIN MutateSource.members) < 3
         THEN /\ cpc' = Leave("error").pc
              /\ stops' = Leave("error").stops
              /\ left' = "error"
              /\ UNCHANGED <<hooks, candidates>>
         ELSE /\ candidates' = {[id |-> CandidateId(i, Elitist(MutateSource.members)),
                                 parent |-> i,
                                 steps |-> MutateSource.members[i].steps,
                                 from |-> MutateSource.index] :
                                    i \in DOMAIN MutateSource.members}
              /\ hooks' = Append(hooks, [hook |-> "mutate", gen |-> MutateSource.index,
                                         n |-> Cardinality(DOMAIN MutateSource.members)])
              /\ cpc' = "train"
              /\ UNCHANGED <<stops, left>>
    /\ UNCHANGED <<population_size, evolver, minimize, end_criteria, nfe, generations,
                   current, new_generation, selects, database, returned>>
    /\ UNCHANGED <<poolVars, evoVars, mutVars>>

\* The survivor on_evaluate() returns for the trained candidate c.
\* ExploitAndExplore: the candidate itself, trained to score ts.
\* DifferentialEvolution: the trained trial (score ts) when the trained
\* parent (score ps) <= trial, else the parent.
Survivor(c, ps, ts) ==
    IF evolver = "DifferentialEvolution"
      THEN (IF MemberLE(Member(TrainedSteps(c.steps), ps), Member(TrainedSteps(c.steps), ts))
              THEN Member(TrainedSteps(c.steps), ts)
              ELSE Member(TrainedSteps(c.steps), ps))
      ELSE Member(TrainedSteps(c.steps), ts)

\* one round of "for candidates in train(...)": the select, the NFE count,
\* the database update and the append to the new generation
Controller_select(c, ps, ts, has_state) ==
    /\ cpc = "train"
    /\ ~TrainExhausted
    /\ c \in candidates
    /\ candidates' = candidates \ {c}
    /\ returned' = [id |-> c.id, has_state |-> has_state, parent_score |-> ps,
                    trial_score |-> ts]
    /\ selects' = selects + 1
    /\ nfe' = CountEvaluation(nfe)
    /\ hooks' = Append(hooks, [hook |-> "select", gen |-> c.from, n |-> 0])
    /\ new_generation' = (c.id :> Survivor(c, ps, ts)) @@ new_generation
    /\ database' = Database_update(database, c.id, Survivor(c, ps, ts).steps)
    /\ UNCHANGED <<population_size, evolver, minimize, end_criteria, cpc, generations,
                   current, stops, left>>
    /\ UNCHANGED <<poolVars, evoVars, mutVars>>

\* after the for loop: on_generation_end(), the population grows by the new
\* generation, garbage is collected
Controller_generation_end ==
    /\ cpc = "train"
    /\ TrainExhausted
    /\ hooks' = Append(hooks, [hook |-> "on_generation_end", gen |-> generations - 1,
                               n |-> Cardinality(DOMAIN new_generation)])
    /\ current' = new_generation
    /\ generations' = generations + 1
    /\ cpc' = "loop"
    /\ UNCHANGED <<population_size, evolver, minimize, end_criteria, nfe, new_generation,
                   candidates, selects, stops, left, database, returned>>
    /\ UNCHANGED <<poolVars, evoVars, mutVars>>

\* a KeyboardInterrupt reaches the controller between two steps of its run
\* (it waits for a result nearly all the time)
Controller_interrupt ==
    /\ cpc \in {"initial", "loop", "evolve", "train"}
    /\ cpc' = Leave("interrupted").pc
    /\ stops' = Leave("interrupted").stops
    /\ left' = "interrupted"
    /\ UNCHANGED <<population_size, evolver, minimize, end_criteria, nfe, generations,
                   current, new_generation, candidates, hooks, selects, database, returned>>
    /\ UNCHANGED <<poolVars, evoVars, mutVars>>

\* train() raises while results are outstanding (its workers failed)
Controller_train_error ==
    /\ cpc \in {"initial", "train"}
    /\ candidates # {}
    /\ cpc' = Leave("error").pc
    /\ stops' = Leave("error").stops
    /\ left' = "error"
    /\ UNCHANGED <<population_size, evolver, minimize, end_criteria, nfe, generations,
                   current, new_generation, candidates, hooks, selects, database, returned>>
    /\ UNCHANGED <<poolVars, evoVars, mutVars>>

NextCtl ==
    \/ Controller_start
    \/ \E c \in candidates, sc \in Scores, has_state \in BOOLEAN :
          Controller_initial_member(c, sc, has_state)
    \/ Controller_initial_done
    \/ Controller_loop
    \/ Controller_evolve
    \/ \E c \in candidates, ps \in Scores, ts \in Scores, has_state \in BOOLEAN :
          Controller_select(c, ps, ts, has_state)
    \/ Controller_generation_end
    \/ Controller_interrupt
    \/ Controller_train_error

\* ------------------------------------------------------------------------
\* The evolvers: DifferentialEvolution, SHADE and L-SHADE with the
\* historical memory, the external archive and the population reduction
\* (pbt/evolution.py)
\* ------------------------------------------------------------------------
\* the largest LSHADE._nfe the model follows
EvoMaxNfe == 9
\* the largest N_INIT of an evolver
MaxNInit == 6
\* memory_size of SHADE: the number of slots of the historical memory
MemorySize == 2
\* the control parameters CR_i and F_i are multiples of 1 / Grid
Grid == 2
\* the largest number of samples recorded between two resets
MaxSamples == 2
\* a score difference of d weighs d * DeltaScale times the 1e-9 that
\* replaces a difference of zero
DeltaScale == 2

\* LSHADE.N_MIN
N_MIN == 4
\* f_min of SHADE
F_MIN == 0
\* f_max of SHADE, 1.0 in units of 1 / Grid
F_MAX == Grid
\* the 1e-9 of HistoricalMemory.record, the unit of the weights
MinDelta == 1

Rational(n, d) == [num |-> n, den |-> d]
\* None in a list of rationals
NoneValue == Rational(0, 0)

RECURSIVE GCD(_, _)
GCD(a, b) == IF b = 0 THEN a ELSE GCD(b, a % b)
\* a rational in lowest terms
Reduce(r) == LET g == GCD(r.num, r.den) IN Rational(r.num \div g, r.den \div g)

\* Python's round() of p / q (q > 0): the nearest integer, a tie goes to the
\* even one
Round(p, q) ==
    LET f == p \div q
        r == p % q
    IN  IF 2 * r < q THEN f
        ELSE IF 2 * r > q THEN f + 1
        ELSE IF f % 2 = 0 THEN f ELSE f + 1

RemoveAt(a, k) == [j \in 1 .. (Len(a) - 1) |-> IF j < k THEN a[j] ELSE a[j + 1]]

\* sum(S)
RECURSIVE SumSeq(_)
SumSeq(S) == IF S = <<>> THEN 0 ELSE Head(S) + SumSeq(Tail(S))

\* mean_wl(S, weights) without its weights: sum(s**2) / sum(s)
mean_wl_unweighted(S, weights) ==
    Reduce(Rational(SumSeq([j \in DOMAIN S |-> S[j] * S[j]]), SumSeq(S)))

\* mean_wl(S, weights): A / B with A = sum(weight(k) * s**2) and
\* B = sum(weight(k) * s), weight(k) = weights[k] / sum(weights); the values
\* of S and the result are in units of 1 / Grid
mean_wl(S, weights) ==
    LET sumw == SumSeq(weights)
        A == Rational(SumSeq([j \in DOMAIN S |-> weights[j] * S[j] * S[j]]), sumw)
        B == Rational(SumSeq([j \in DOMAIN S |-> weights[j] * S[j]]), sumw)
    IN  Reduce(Rational(A.num * B.den, A.den * B.num))

\* HistoricalMemory.__init__
HistoricalMemory(size, default) ==
    [m_cr |-> [j \in 1 .. size |-> default], m_f |-> [j \in 1 .. size |-> default],
     s_cr |-> <<>>, s_f |-> <<>>, weights |-> <<>>, k |-> 0]

\* HistoricalMemory.record (scores are never NaN here)
HistoricalMemory_record(mem, cr_i, f_i, delta_score) ==
    [mem EXCEPT !.s_cr = Append(@, cr_i),
                !.s_f = Append(@, f_i),
                !.weights = Append(@, IF delta_score = 0 THEN MinDelta
                                      ELSE delta_score * DeltaScale)]

\* HistoricalMemory.reset
HistoricalMemory_reset(mem) == [mem EXCEPT !.s_cr = <<>>, !.s_f = <<>>, !.weights = <<>>]

\* the cursor after an update that stays on its slot
NextCursor_stuck(k, size) == k

\* self.k = 0 if self.k >= self.size - 1 else self.k + 1
NextCursor(k, size) == IF k >= size - 1 THEN 0 ELSE k + 1

\* "A / B" of mean_wl with B == 0.0: ZeroDivisionError
mean_wl_raises(S, weights) == SumSeq([j \in DOMAIN S |-> weights[j] * S[j]]) = 0

\* an update that never returns early
NoSamples_never(mem) == FALSE

\* not self.s_cr or not self.s_f or not self.weights
NoSamples(mem) == mem.s_cr = <<>> \/ mem.s_f = <<>> \/ mem.weights = <<>>

\* HistoricalMemory.update raises: no sample of S_F is above 0 (S_CR is only
\* averaged when one of its samples is)
HistoricalMemory_update_raises(mem) ==
    ~NoSamples(mem) /\ mean_wl_raises(mem.s_f, mem.weights)

\* self.m_cr[self.k] of HistoricalMemory.update
HistoricalMemory_update_m_cr(mem) ==
    IF mem.m_cr[mem.k + 1] = NoneValue \/ (\A j \in DOMAIN mem.s_cr : mem.s_cr[j] = 0)
      THEN NoneValue
      ELSE mean_wl(mem.s_cr, mem.weights)

\* HistoricalMemory.update; slot k of the code is slot k + 1 here.  When
\* mean_wl(self.s_f, ...) raises, M_CR[k] is already written.
HistoricalMemory_update(mem) ==
    IF NoSamples(mem)
      THEN mem
      ELSE IF HistoricalMemory_update_raises(mem)
        THEN [mem EXCEPT !.m_cr[mem.k + 1] = HistoricalMemory_update_m_cr(mem)]
        ELSE [mem EXCEPT
                !.m_cr[mem.k + 1] = HistoricalMemory_update_m_cr(mem),
                !.m_f[mem.k + 1] = mean_wl(mem.s_f, mem.weights),
                !.k = NextCursor(mem.k, Len(mem.m_cr))]

\* len(self) == self.size
ArchiveFull(a, size) == Len(a) * size.den = size.num

\* an append that drops the parent
ExternalArchive_append_none(a, size, parent, random_index) == a

\* ExternalArchive.append(parent); random_index is randrange(size) + 1
ExternalArchive_append(a, size, parent, random_index) ==
    IF ArchiveFull(a, size)
      THEN Append(RemoveAt(a, random_index), parent)
      ELSE Append(a, parent)

\* the values of random.randrange(self.size) + 1 an append can draw (the
\* draw is made only on a full archive)
RandomIndexes == IF ArchiveFull(archive, archive_size) THEN 1 .. Len(archive) ELSE {1}

NoControl == [i \in {} |-> 0]
NoSelect == [op |-> "none", parent |-> 0, trial |-> 0, took |-> "none"]

\* the evolver as constructed (DifferentialEvolution.__init__,
\* SHADE.__init__, LSHADE.__init__) and the generation of n members it
\* starts on, all scores 0
EvolverInit(e, n, m, r) ==
    /\ engine = e
    /\ N_INIT = n
    /\ MAX_NFE = m
    /\ r_arc = r
    /\ archive = <<>>
    /\ archive_size = Rational(Round(n * r.num, r.den), 1)
    /\ memory = HistoricalMemory(MemorySize, Rational(F_MAX - F_MIN, 2))
    /\ CR = NoControl
    /\ F = NoControl
    /\ lshade_nfe = 0
    /\ generation = [i \in 0 .. (n - 1) |-> 0]
    /\ unselected = {}
    /\ epc = "start"
    /\ lastAppend = [before |-> 0, after |-> 0, size |-> Rational(1, 1)]
    /\ lastSelect = NoSelect
    /\ memop = "init"

\* SHADE after mutate has run for each of the N_MIN members of a generation:
\* any scores, the archive empty or full, and control parameters that tell
\* the members apart
InitSel ==
    \E scores \in [0 .. (N_MIN - 1) -> Scores], full \in BOOLEAN :
        /\ engine = "SHADE"
        /\ N_INIT = N_MIN
        /\ MAX_NFE = 5
        /\ r_arc = Rational(1, 1)
        /\ archive = IF full THEN [j \in 1 .. N_MIN |-> 0] ELSE <<>>
        /\ archive_size = Rational(N_MIN, 1)
        /\ memory = HistoricalMemory(MemorySize, Rational(F_MAX - F_MIN, 2))
        /\ CR = [i \in 0 .. (N_MIN - 1) |-> i % (Grid + 1)]
        /\ F = [i \in 0 .. (N_MIN - 1) |-> 1 + (i % Grid)]
        /\ lshade_nfe = 0
        /\ generation = scores
        /\ unselected = 0 .. (N_MIN - 1)
        /\ epc = "select"
        /\ lastAppend = [before |-> 0, after |-> 0, size |-> Rational(1, 1)]
        /\ lastSelect = NoSelect
        /\ memop = "reset"

\* the configurations of the archive and population-reduction runs; for
\* DifferentialEvolution N_INIT is the size of the population it is given
InitEvo ==
    \E e \in {"DifferentialEvolution", "SHADE", "LSHADE"}, n \in 2 .. MaxNInit,
       m \in {1, 5, 10}, r \in {Rational(1, 2), Rational(1, 1)} :
        /\ e = "DifferentialEvolution" => n \in 2 .. 3 /\ m = 5 /\ r = Rational(1, 1)
        \* SHADE has no MAX_NFE and never resizes: one size, one MAX_NFE
        /\ e = "SHADE" => n = N_MIN /\ m = 5
        \* L-SHADE: the largest population with the smaller archive and a
        \* budget of 1 or 10 evaluations, the others with a budget of 5
        /\ e = "LSHADE" => /\ n > N_MIN
                           /\ n = MaxNInit => r = Rational(1, 2) /\ m \in {1, 10}
                           /\ n < MaxNInit => m = 5
        /\ EvolverInit(e, n, m, r)

\* the configuration of the historical-memory runs
InitMem == EvolverInit("SHADE", N_MIN, 5, Rational(1, 1))

IdleEvo == EvolverInit("SHADE", N_MIN, 5, Rational(1, 1))

\* EvolveEngine.on_generation_start: DifferentialEvolution does not override it
EvolveEngine_on_generation_start ==
    /\ engine = "DifferentialEvolution"
    /\ epc = "start"
    /\ epc' = "mutate"
    /\ UNCHANGED <<evoConfig, archive, archive_size, memory, CR, F, lshade_nfe,
                   generation, unselected, lastAppend, lastSelect, memop>>
    /\ UNCHANGED <<poolVars, ctlVars, mutVars>>

\* a size test that lets every generation pass
TooFew_never(size, least) == FALSE

\* len(generation) < 3 of DifferentialEvolution.mutate, len(generation) < 4
\* of SHADE.mutate
TooFew(size, least) == size < least

\* DifferentialEvolution.mutate for the whole generation, consumed by
\* list(): a generation of fewer than 3 members raises ValueError before
\* the first candidate
DifferentialEvolution_mutate ==
    /\ engine = "DifferentialEvolution"
    /\ epc = "mutate"
    /\ IF TooFew(Cardinality(DOMAIN generation), 3)
         THEN epc' = "raised" /\ UNCHANGED unselected
         ELSE epc' = "select" /\ unselected' = DOMAIN generation
    /\ UNCHANGED <<evoConfig, archive, archive_size, memory, CR, F, lshade_nfe,
                   generation, lastAppend, lastSelect, memop>>
    /\ UNCHANGED <<poolVars, ctlVars, mutVars>>

\* parent <= trial, on the members' scores
ParentLE(parent, trial) == MemberLE(Member(0, parent), Member(0, trial))

\* the candidate select() returns when it always keeps the parent
Selected_parent(parent, trial) == "parent"

\* the candidate DifferentialEvolution.select and SHADE.select return
Selected(parent, trial) == IF ParentLE(parent, trial) THEN "trial" ELSE "parent"

\* DifferentialEvolution.select(parent, trial) for member i, the parent
\* trained to score ps and the trial to score ts
DifferentialEvolution_select(i, ps, ts) ==
    /\ engine = "DifferentialEvolution"
    /\ epc = "select"
    /\ i \in unselected
    /\ unselected' = unselected \ {i}
    /\ generation' = [generation EXCEPT ![i] = IF Selected(ps, ts) = "trial" THEN ts ELSE ps]
    /\ lastSelect' = [op |-> "DifferentialEvolution.select", parent |-> ps, trial |-> ts,
                      took |-> Selected(ps, ts)]
    /\ UNCHANGED <<evoConfig, archive, archive_size, memory, CR, F, lshade_nfe, epc,
                   lastAppend, memop>>
    /\ UNCHANGED <<poolVars, ctlVars, mutVars>>

\* EvolveEngine.on_generation_end: DifferentialEvolution does not override it
EvolveEngine_on_generation_end ==
    /\ engine = "DifferentialEvolution"
    /\ epc = "select"
    /\ unselected = {}
    /\ epc' = "start"
    /\ UNCHANGED <<evoConfig, archive, archive_size, memory, CR, F, lshade_nfe,
                   generation, unselected, lastAppend, lastSelect, memop>>
    /\ UNCHANGED <<poolVars, ctlVars, mutVars>>

\* an on_generation_start() that keeps the control parameters of the last
\* generation
dict_kept(old) == old

\* self.CR = dict(), self.F = dict(): the map that replaces the old one
dict(old) == NoControl

\* SHADE.on_generation_start
SHADE_on_generation_start ==
    /\ engine \in {"SHADE", "LSHADE"}
    /\ epc = "start"
    /\ memory' = HistoricalMemory_reset(memory)
    /\ memop' = "reset"
    /\ CR' = dict(CR)
    /\ F' = dict(F)
    /\ epc' = "mutate"
    /\ UNCHANGED <<evoConfig, archive, archive_size, lshade_nfe, generation, unselected,
                   lastAppend, lastSelect>>
    /\ UNCHANGED <<poolVars, ctlVars, mutVars>>

\* SHADE.mutate for every member of the generation.  A generation of fewer
\* than 4 members raises ValueError.  get_control_parameters() draws a
\* memory slot r1 for each member: math.isnan(MCR_i) raises TypeError when
\* the slot of M_CR holds None (hit: some member draws such a slot);
\* otherwise CR_i is the clipped normal draw cr[i] and F_i the truncated
\* Cauchy draw f[i], assigned to the member's entry of self.CR and self.F.
SHADE_mutate(cr, f, hit) ==
    /\ engine \in {"SHADE", "LSHADE"}
    /\ epc = "mutate"
    /\ IF TooFew(Cardinality(DOMAIN generation), 4)
         THEN epc' = "raised" /\ UNCHANGED <<unselected, CR, F>>
         ELSE /\ hit => \E j \in DOMAIN memory.m_cr : memory.m_cr[j] = NoneValue
              /\ ~hit => \E j \in DOMAIN memory.m_cr : memory.m_cr[j] # NoneValue
              /\ IF hit
                   THEN epc' = "raised" /\ UNCHANGED <<unselected, CR, F>>
                   ELSE /\ epc' = "select"
                        /\ unselected' = DOMAIN generation
                        /\ CR' = cr @@ CR
                        /\ F' = f @@ F
    /\ UNCHANGED <<evoConfig, archive, archive_size, memory, lshade_nfe, generation,
                   lastAppend, lastSelect, memop>>
    /\ UNCHANGED <<poolVars, ctlVars, mutVars>>

\* SHADE.select(parent, trial) for member i, its trial trained to score ts
SHADE_select_body(i, ts, random_index) ==
    /\ epc = "select"
    /\ i \in unselected
    /\ unselected' = unselected \ {i}
    /\ IF ParentLE(generation[i], ts)
         THEN /\ archive' = ExternalArchive_append(archive, archive_size, generation[i],
                                                   random_index)
              /\ lastAppend' = [before |-> Len(archive), after |-> Len(archive'),
                                size |-> archive_size]
              /\ memory' = HistoricalMemory_record(memory, CR[i], F[i],
                              IF ts >= generation[i] THEN ts - generation[i]
                              ELSE generation[i] - ts)
              /\ memop' = "record"
              /\ generation' = [generation EXCEPT ![i] = ts]
         ELSE UNCHANGED <<archive, lastAppend, memory, memop, generation>>
    /\ lastSelect' = [op |-> "SHADE.select", parent |-> generation[i], trial |-> ts,
                      took |-> Selected(generation[i], ts)]
    /\ UNCHANGED <<evoConfig, archive_size, CR, F, epc>>
    /\ UNCHANGED <<poolVars, ctlVars, mutVars>>

SHADE_select(i, ts, random_index) ==
    /\ engine = "SHADE"
    /\ SHADE_select_body(i, ts, random_index)
    /\ UNCHANGED lshade_nfe

\* LSHADE.select: counts the evaluation, then super().on_evaluate(candidates)
\* where on_evaluate names the select hook, as in controller.py
LSHADE_select(i, ts, random_index) ==
    /\ engine = "LSHADE"
    /\ lshade_nfe < EvoMaxNfe
    /\ lshade_nfe' = lshade_nfe + 1
    /\ SHADE_select_body(i, ts, random_index)

\* LSHADE.select where SHADE has no attribute on_evaluate, as in evolution.py:
\* the evaluation is counted and AttributeError is raised
LSHADE_select_raises(i) ==
    /\ engine = "LSHADE"
    /\ epc = "select"
    /\ i \in unselected
    /\ lshade_nfe < EvoMaxNfe
    /\ lshade_nfe' = lshade_nfe + 1
    /\ epc' = "raised"
    /\ UNCHANGED <<evoConfig, archive, archive_size, memory, CR, F, generation,
                   unselected, lastAppend, lastSelect, memop>>
    /\ UNCHANGED <<poolVars, ctlVars, mutVars>>

\* SHADE.on_generation_end: the memory update (the averages are diagnostics)
SHADE_on_generation_end ==
    /\ engine = "SHADE"
    /\ epc = "select"
    /\ unselected = {}
    /\ epc' = IF HistoricalMemory_update_raises(memory) THEN "raised" ELSE "start"
    /\ memory' = HistoricalMemory_update(memory)
    /\ memop' = "update"
    /\ UNCHANGED <<evoConfig, archive, archive_size, CR, F, lshade_nfe, generation,
                   unselected, lastAppend, lastSelect>>
    /\ UNCHANGED <<poolVars, ctlVars, mutVars>>

\* new_size of LSHADE.adjust_generation_size
NewSize == Round((N_MIN - N_INIT) * lshade_nfe + N_INIT * MAX_NFE, MAX_NFE)

\* sorted(generation)[:size_delta]: a choice of the size_delta least
\* members, all of them when size_delta exceeds the generation
Worst(size_delta) ==
    {R \in SUBSET (DOMAIN generation) :
        /\ Cardinality(R) = IF size_delta > Cardinality(DOMAIN generation)
                              THEN Cardinality(DOMAIN generation) ELSE size_delta
        /\ \A r \in R, m \in (DOMAIN generation) \ R :
              ParentLE(generation[r], generation[m])}

\* LSHADE.on_generation_end: adjust_generation_size(), then SHADE's
LSHADE_on_generation_end ==
    /\ engine = "LSHADE"
    /\ epc = "select"
    /\ unselected = {}
    /\ epc' = IF HistoricalMemory_update_raises(memory) THEN "raised" ELSE "start"
    /\ IF NewSize >= Cardinality(DOMAIN generation)
         THEN UNCHANGED <<archive_size, generation>>
         ELSE /\ archive_size' = Rational(NewSize * r_arc.num, r_arc.den)
              /\ \E R \in Worst(Cardinality(DOMAIN generation) - NewSize) :
                    generation' = [m \in (DOMAIN generation) \ R |-> generation[m]]
    /\ memory' = HistoricalMemory_update(memory)
    /\ memop' = "update"
    /\ UNCHANGED <<evoConfig, archive, CR, F, lshade_nfe, unselected, lastAppend,
                   lastSelect>>
    /\ UNCHANGED <<poolVars, ctlVars, mutVars>>

\* The historical memory driven method by method, as any caller may:
\* memory.record(cr_i, f_i, delta_score) of a sample that passes its
\* assertions
Memory_record(cr_i, f_i, delta_score) ==
    /\ Len(memory.s_cr) < MaxSamples
    /\ memory' = HistoricalMemory_record(memory, cr_i, f_i, delta_score)
    /\ memop' = "record"
    /\ UNCHANGED <<evoConfig, archive, archive_size, CR, F, lshade_nfe, generation,
                   unselected, epc, lastAppend, lastSelect>>
    /\ UNCHANGED <<poolVars, ctlVars, mutVars>>

\* memory.reset()
Memory_reset ==
    /\ memory' = HistoricalMemory_reset(memory)
    /\ memop' = "reset"
    /\ UNCHANGED <<evoConfig, archive, archive_size, CR, F, lshade_nfe, generation,
                   unselected, epc, lastAppend, lastSelect>>
    /\ UNCHANGED <<poolVars, ctlVars, mutVars>>

\* memory.update()
Memory_update ==
    /\ memory' = HistoricalMemory_update(memory)
    /\ memop' = "update"
    /\ UNCHANGED <<evoConfig, archive, archive_size, CR, F, lshade_nfe, generation,
                   unselected, epc, lastAppend, lastSelect>>
    /\ UNCHANGED <<poolVars, ctlVars, mutVars>>

\* ------------------------------------------------------------------------
\* The coordinates of the candidates: one hyperparameter coordinate u of a
\* candidate as mutate writes it.  Coordinates are counted in units of
\* 1 / Unit, factors in units of 1 / Grid.  pbt/hyperparameters.py,
\* pbt/utils/constraint.py, pbt/de/constraint.py and pbt/de/mutation.py are
\* not among the source files and are modelled from the specification
\* (sections 4.1, 4.2 and 4.4).
\* ------------------------------------------------------------------------
\* 1.0 as a coordinate
Unit == 2 * Grid * Grid
\* the coordinates of the members of a generation, all in [0, 1]
Coordinates == {k * 2 * Grid : k \in 0 .. Grid}
\* the factors F, F_i (decayed or guided, below 0 and above 1 too),
\* perturb_factor and explore_factors, in units of 1 / Grid
Factors == (0 - Grid) .. (2 * Grid)

\* factor * x
Times(factor, x) == (factor * x) \div Grid

clip(x, lo, hi) == IF x < lo THEN lo ELSE IF x > hi THEN hi ELSE x

halving(base, mutant, lower_bounds, upper_bounds) ==
    IF mutant < lower_bounds THEN (base + lower_bounds) \div 2
    ELSE IF mutant > upper_bounds THEN (base + upper_bounds) \div 2
    ELSE mutant

de_rand_1(Fv, x_r0, x_r1, x_r2) == x_r0 + Times(Fv, x_r1 - x_r2)

de_current_to_best_1(Fv, x_base, x_best, x_r1, x_r2) ==
    x_base + Times(Fv, x_best - x_base) + Times(Fv, x_r1 - x_r2)

\* hyperparameter * scalar: the clipped product
Hyperparameter_mul(u, scalar) == clip(Times(scalar, u), 0, Unit)

\* ------------------------------------------------------------------------
\* Hyperparameter (PopulationBasedTraining/hyperparameters.py)
\* ------------------------------------------------------------------------
\* Bounds and values are numbers [x, type]: x in units of 1/2, type the Python
\* type ("int" only where x is whole, "float", or "str" for the items of a
\* categorical list, which x then orders). The normalized _value, the scalars
\* and what a call returns are rationals [num, den] in lowest terms, den > 0;
\* _value = None is NoneValue.
MaxBound == 1
MaxItems == 3
MaxHpCalls == 3

Magnitude(x) == IF x < 0 THEN 0 - x ELSE x

\* n / d, d # 0
Frac(n, d) ==
    LET g == GCD(Magnitude(n), Magnitude(d))
    IN  IF d < 0 THEN Rational((0 - n) \div g, (0 - d) \div g)
        ELSE Rational(n \div g, d \div g)

\* RationalLE(x, y): x <= y for rationals
RationalLE(x, y) == x.num * y.den <= y.num * x.den

Number(x, type) == [x |-> x, type |-> type]

Numbers ==
    {n \in [x : (0 - 2) .. (2 * MaxBound + 2), type : {"int", "float"}] :
        n.type = "int" => n.x % 2 = 0}

BoundArgs == {n \in Numbers : n.x \in 0 .. (2 * MaxBound)}

Items == {Number(x, "str") : x \in 1 .. (MaxItems + 1)}

\* the argument lists of a categorical hyperparameter: two to MaxItems
\* different items of 1 .. MaxItems, in any order
ItemLists ==
    {a \in UNION {[1 .. n -> {Number(x, "str") : x \in 1 .. MaxItems}] : n \in 2 .. MaxItems} :
        \A i, j \in DOMAIN a : i # j => a[i] # a[j]}

\* what a call does: the exception it raises ("none" when it returns) and
\* what it returns
Outcome(raised, ret) == [raised |-> raised, ret |-> ret]
Raises(error) == Outcome(error, NoneValue)
Returns(ret) == Outcome("none", ret)

\* a complex number: what a negative float to a fractional power is
ComplexValue == Rational(1, 0)

\* sorted(list(args)): a stable sort
RECURSIVE sorted(_)
sorted(args) ==
    IF args = <<>> THEN <<>>
    ELSE LET rest == sorted(Tail(args))
             k == Cardinality({j \in DOMAIN rest : rest[j].x < Head(args).x})
         IN  SubSeq(rest, 1, k) \o <<Head(args)>> \o SubSeq(rest, k + 1, Len(rest))

\* translate(value, left_min, left_max, right_min, right_max): value a
\* rational or None, the four bounds integers
translate(value, left_min, left_max, right_min, right_max) ==
    LET left_span == left_max - left_min
        right_span == right_max - right_min
    IN  IF value \in {NoneValue, ComplexValue} THEN Raises("TypeError")
        ELSE IF left_span = 0 THEN Raises("ZeroDivisionError")
        ELSE LET value_normalized ==
                     Frac(value.num - left_min * value.den, value.den * left_span)
             IN  Returns(Frac(right_min * value_normalized.den
                                 + value_normalized.num * right_span,
                              value_normalized.den))

\* clip(value, min_value, max_value) of hyperparameters.py: value a rational,
\* the bounds integers
Hyperparameter_clip(value, min_value, max_value) ==
    IF value.num < min_value * value.den THEN Rational(min_value, 1)
    ELSE IF value.num > max_value * value.den THEN Rational(max_value, 1)
    ELSE value

\* the asserts of Hyperparameter.__init__, which read "not is_categorical and
\* isinstance(args[0], (float, int))"
Hyperparameter_init_asserts(args, is_categorical) ==
    /\ Len(args) > 1
    /\ ~is_categorical /\ args[1].type \in {"float", "int"}

\* Hyperparameter(*args, is_categorical = ...) under an interpreter whose
\* __debug__ is debug
Hyperparameter(args, is_categorical, debug) ==
    IF debug /\ ~Hyperparameter_init_asserts(args, is_categorical)
    THEN [state |-> "AssertionError", debug |-> debug, is_categorical |-> is_categorical,
          search_space |-> <<>>, value |-> NoneValue, calls |-> 0]
    ELSE [state |-> "ok", debug |-> debug, is_categorical |-> is_categorical,
          search_space |-> sorted(args), value |-> NoneValue, calls |-> 0]

get_lower_bound(h) == h.search_space[1]
get_upper_bound(h) == h.search_space[Len(h.search_space)]

\* self._search_space.index(value), counted from 0
IndexOf(h, value) == (CHOOSE j \in DOMAIN h.search_space : h.search_space[j] = value) - 1

\* _get_normalized_value(value)
Hyperparameter_get_normalized_value(h, value) ==
    IF h.is_categorical
    THEN IF value \notin {h.search_space[j] : j \in DOMAIN h.search_space}
         THEN Raises(IF h.debug THEN "AssertionError" ELSE "ValueError")
         ELSE translate(Rational(IndexOf(h, value), 1), 0, Len(h.search_space) - 1, 0, 1)
    ELSE IF value.type \in {"int", "float"}
    THEN translate(Rational(value.x, 1), get_lower_bound(h).x, get_upper_bound(h).x, 0, 1)
    ELSE Raises("Exception")

\* self._search_space[index] with Python's indexing, as a rational
Subscript(h, index) ==
    LET n == Len(h.search_space)
    IN  IF index >= n \/ index < 0 - n THEN Raises("IndexError")
        ELSE Returns(Rational(h.search_space[IF index < 0 THEN index + n + 1 ELSE index + 1].x, 1))

\* int(round(r)) of a rational r
IntRound(r) == Round(r.num, r.den)

\* get_value(): a categorical item, a float, or an int where the lower bound
\* is an int; the numbers in units of 1/2
Hyperparameter_get_value(h) ==
    IF h.is_categorical
    THEN LET t == translate(h.value, 0, 1, 0, Len(h.search_space) - 1)
         IN  IF t.raised # "none" THEN t ELSE Subscript(h, IntRound(t.ret))
    ELSE LET t == translate(h.value, 0, 1, get_lower_bound(h).x, get_upper_bound(h).x)
         IN  IF t.raised # "none" THEN t
             ELSE IF get_lower_bound(h).type = "float" THEN t
             ELSE IF get_lower_bound(h).type = "int"
             THEN Returns(Rational(2 * IntRound(Frac(t.ret.num, 2 * t.ret.den)), 1))
             ELSE Raises("Exception")

\* the scalars an operator is applied with
Scalars == {Frac(0 - 1, 1), Frac(0, 1), Frac(1, 2), Frac(1, 1), Frac(2, 1)}

Operators == {"+", "-", "*", "/", "**"}

\* the special method Python 3 looks up for "hp op other" and, in place, for
\* "hp op= other"
SpecialMethod(op, inplace) ==
    LET name == CASE op = "+" -> "add" [] op = "-" -> "sub" [] op = "*" -> "mul"
                  [] op = "/" -> "truediv" [] op = "**" -> "pow"
    IN  IF inplace THEN "__i" \o name \o "__" ELSE "__" \o name \o "__"

\* the special methods the class defines
HyperparameterMethods ==
    {"__add__", "__sub__", "__mul__", "__div__", "__pow__",
     "__iadd__", "__isub__", "__imul__", "__idiv__", "__ipow__"}

RECURSIVE IntPow(_, _)
\* x ** n for a natural n
IntPow(x, n) ==
    IF n = 0 THEN Rational(1, 1)
    ELSE LET p == IntPow(x, n - 1) IN Frac(x.num * p.num, x.den * p.den)

\* x ** y has a value this model can write: a rational, a complex number or
\* an exception (a positive x other than 1 to a fractional power has not)
PowDefined(x, y) == y.den = 1 \/ x.num <= 0 \/ x = Rational(1, 1)

\* x op y of Python floats, x and y rationals
Arithmetic(op, x, y) ==
    CASE op = "+" -> Returns(Frac(x.num * y.den + y.num * x.den, x.den * y.den))
      [] op = "-" -> Returns(Frac(x.num * y.den - y.num * x.den, x.den * y.den))
      [] op = "*" -> Returns(Frac(x.num * y.num, x.den * y.den))
      [] op = "/" -> IF y.num = 0 THEN Raises("ZeroDivisionError")
                     ELSE Returns(Frac(x.num * y.den, x.den * y.num))
      [] op = "**" ->
            IF y.den = 1
            THEN IF y.num >= 0 THEN Returns(IntPow(x, y.num))
                 ELSE IF x.num = 0 THEN Raises("ZeroDivisionError")
                 ELSE LET p == IntPow(x, 0 - y.num) IN Returns(Frac(p.den, p.num))
            ELSE IF x.num = 0
            THEN IF y.num > 0 THEN Returns(Rational(0, 1)) ELSE Raises("ZeroDivisionError")
            ELSE IF x.num < 0 THEN Returns(ComplexValue)
            ELSE Returns(Rational(1, 1))

\* "hp op other": __add__ .. __pow__, the scalar as the left operand
Hyperparameter_binary(h, op, other) ==
    IF SpecialMethod(op, FALSE) \notin HyperparameterMethods THEN Raises("TypeError")
    ELSE IF h.value = NoneValue THEN Raises("TypeError")
    ELSE LET r == Arithmetic(op, other, h.value)
         IN  IF r.raised # "none" THEN r
             ELSE IF r.ret = ComplexValue THEN Raises("TypeError")
             ELSE Returns(Hyperparameter_clip(r.ret, 0, 1))

\* "hp op= other": __iadd__ .. __ipow__, else the binary method
Hyperparameter_inplace(h, op, other) ==
    IF SpecialMethod(op, TRUE) \notin HyperparameterMethods
    THEN Hyperparameter_binary(h, op, other)
    ELSE IF h.value = NoneValue THEN Raises("TypeError")
    ELSE Arithmetic(op, h.value, other)

NoHyperparameter ==
    [state |-> "none", debug |-> TRUE, is_categorical |-> FALSE,
     search_space |-> <<>>, value |-> NoneValue, calls |-> 0]

HpCall(method, op, arg, other, before, result) ==
    [method |-> method, op |-> op, arg |-> arg, other |-> other, before |-> before,
     raised |-> result.raised, ret |-> result.ret]

NoArg == Number(0, "none")

NoHpCall == HpCall("none", "", NoArg, NoneValue, NoneValue, Raises("none"))

IdleHp == hp = NoHyperparameter /\ hpcall = NoHpCall

\* a hyperparameter after its construction: a continuous one over two bounds
\* or a categorical one over a list of items
InitHp ==
    /\ \E debug \in BOOLEAN :
          \/ \E a, b \in BoundArgs : hp = Hyperparameter(<<a, b>>, FALSE, debug)
          \/ \E items \in ItemLists : hp = Hyperparameter(items, TRUE, debug)
    /\ hpcall = NoHpCall

HpReady == hp.state = "ok" /\ hp.calls < MaxHpCalls

\* hp.set_value(value)
Hyperparameter_set_value(value) ==
    /\ HpReady
    /\ LET r == Hyperparameter_get_normalized_value(hp, value)
       IN  /\ hp' = [hp EXCEPT !.calls = @ + 1,
                               !.value = IF r.raised = "none"
                                           THEN Hyperparameter_clip(r.ret, 0, 1) ELSE @]
           /\ hpcall' = HpCall("set_value", "", value, NoneValue, hp.value,
                               IF r.raised = "none" THEN Returns(NoneValue) ELSE r)
    /\ UNCHANGED <<poolVars, ctlVars, evoVars, emitted, ee, gcp>>

\* hp.get_value()
Hyperparameter_value ==
    /\ HpReady
    /\ hp' = [hp EXCEPT !.calls = @ + 1]
    /\ hpcall' = HpCall("get_value", "", NoArg, NoneValue, hp.value,
                        Hyperparameter_get_value(hp))
    /\ UNCHANGED <<poolVars, ctlVars, evoVars, emitted, ee, gcp>>

\* hp op other
Hyperparameter_operator(op, other) ==
    /\ HpReady
    /\ hp.value # NoneValue => PowDefined(other, hp.value) \/ op # "**"
    /\ hp.value # ComplexValue
    /\ hp' = [hp EXCEPT !.calls = @ + 1]
    /\ hpcall' = HpCall("binary", op, NoArg, other, hp.value,
                        Hyperparameter_binary(hp, op, other))
    /\ UNCHANGED <<poolVars, ctlVars, evoVars, emitted, ee, gcp>>

\* hp op= other
Hyperparameter_assign(op, other) ==
    /\ HpReady
    /\ hp.value # NoneValue => PowDefined(hp.value, other) \/ op # "**"
    /\ hp.value # ComplexValue
    /\ LET r == Hyperparameter_inplace(hp, op, other)
       IN  /\ hp' = [hp EXCEPT !.calls = @ + 1,
                               !.value = IF r.raised = "none"
                                            /\ SpecialMethod(op, TRUE) \in HyperparameterMethods
                                           THEN r.ret ELSE @]
           /\ hpcall' = HpCall("inplace", op, NoArg, other, hp.value, r)
    /\ UNCHANGED <<poolVars, ctlVars, evoVars, emitted, ee, gcp>>

\* ------------------------------------------------------------------------
\* ExploitAndExplore.mutate (pbt/evolution.py)
\* ------------------------------------------------------------------------
\* A member is [id, score, u] with one hyperparameter, its normalized value u
\* in units of 1 / Unit; exploit_factor is a rational; the explore factors
\* are in units of 1 / Grid.
MaxMembers == 3

EEScores == 0 .. (MaxScore + 1)
EECoordinates == Coordinates \ {0}
ExploitFactors == {Frac(0, 1), Frac(1, 5), Frac(1, 2), Frac(1, 1)}
explore_factors == {Grid - 1, Grid + 1}

\* a < b of two members: by score, the smaller score the greater when
\* minimizing
Member_lt(a, b, min) == IF min THEN a.score > b.score ELSE a.score < b.score

\* a == b of two members
Member_eq(a, b) == a.score = b.score

\* n_elitists where every member counts as an elitist
n_elitists_all(n, exploit_factor) == n

\* n_elitists = max(1, round(len(generation) * self.exploit_factor))
n_elitists(n, exploit_factor) ==
    LET rounded == Round(n * exploit_factor.num, exploit_factor.den)
    IN  IF rounded > 1 THEN rounded ELSE 1

\* sorted(generation, reverse=True): the position of member j of the list g
\* in the sorted list; members that compare equal keep their order
SortedPosition(g, j, min) ==
    1 + Cardinality({i \in DOMAIN g : Member_lt(g[j], g[i], min)})
      + Cardinality({i \in DOMAIN g :
            i < j /\ ~Member_lt(g[j], g[i], min) /\ ~Member_lt(g[i], g[j], min)})

sorted_members(g, min) ==
    [p \in DOMAIN g |-> g[CHOOSE j \in DOMAIN g : SortedPosition(g, j, min) = p]]

\* elitists = sorted_members[:n_elitists]
Elitists(g, min, exploit_factor) ==
    SubSeq(sorted_members(g, min), 1, n_elitists(Len(g), exploit_factor))

\* member in elitists: the same object, or one that compares equal
InElitists(member, elitists) ==
    \E k \in DOMAIN elitists : elitists[k] = member \/ Member_eq(elitists[k], member)

\* __exploit_and_explore(member, generation): the candidate, with the
\* elitist it exploited and the factor it explored with
ExploitAndExplore_candidate(member, elitists, k, perturb_factor) ==
    IF ~InElitists(member, elitists)
    THEN [id |-> member.id, exploits |-> elitists[k].id, explores |-> perturb_factor,
          u |-> Hyperparameter_mul(elitists[k].u, perturb_factor)]
    ELSE [id |-> member.id, exploits |-> 0 - 1, explores |-> 0, u |-> member.u]

NoGeneration ==
    [generation |-> <<>>, minimize |-> FALSE, exploit_factor |-> Frac(0, 1),
     candidates |-> <<>>]

IdleEE == ee = NoGeneration

\* an ExploitAndExplore engine and the generation handed to its mutate
InitEE ==
    \E n \in 1 .. MaxMembers, min \in BOOLEAN, ef \in ExploitFactors :
       \E scores \in [1 .. n -> EEScores], us \in [1 .. n -> EECoordinates] :
          ee = [generation |-> [j \in 1 .. n |->
                                   [id |-> j - 1, score |-> scores[j], u |-> us[j]]],
                minimize |-> min, exploit_factor |-> ef, candidates |-> <<>>]

\* one candidate of mutate(generation): the next member of the generation,
\* with the choice k of random.choice(elitists) and the factor of
\* random.choice(self.explore_factors)
ExploitAndExplore_mutate(k, perturb_factor) ==
    /\ Len(ee.candidates) < Len(ee.generation)
    /\ LET member == ee.generation[Len(ee.candidates) + 1]
           elitists == Elitists(ee.generation, ee.minimize, ee.exploit_factor)
       IN  /\ k \in DOMAIN elitists
           /\ ee' = [ee EXCEPT !.candidates =
                        Append(@, ExploitAndExplore_candidate(member, elitists, k,
                                                              perturb_factor))]
    /\ UNCHANGED <<poolVars, ctlVars, evoVars, emitted, hpVars, gcp>>

\* ------------------------------------------------------------------------
\* SHADE.get_control_parameters (pbt/evolution.py)
\* ------------------------------------------------------------------------
\* The draws of randn and randc, CR_i and F_i are integers in units of
\* 1 / Grid; the memory slots are rationals, None is NoneValue.
MaxDraws == 2

RandnDraws == (0 - 1) .. (Grid + 1)
RandcDraws == (0 - 1) .. (Grid + 1)
MCRValues == {NoneValue} \cup {Frac(k, Grid) : k \in 0 .. Grid}
MFValues == {Frac(k, Grid) : k \in 1 .. Grid}

\* the draws of randc the loop makes: all but the last are below F_MIN
DrawSequences ==
    {d \in UNION {[1 .. n -> RandcDraws] : n \in 1 .. MaxDraws} :
        /\ d[Len(d)] >= F_MIN
        /\ \A j \in 1 .. (Len(d) - 1) : d[j] < F_MIN}

\* the loop of get_control_parameters without its limit at F_MAX
SHADE_F_i_unlimited(draws) == draws[Len(draws)]

\* the loop of get_control_parameters: the first draw that is not below
\* F_MIN, F_MAX where it is above
SHADE_F_i(draws) ==
    LET F_i == draws[Len(draws)] IN IF F_i > F_MAX THEN F_MAX ELSE F_i

\* math.isnan(x) raises TypeError for None
isnan_raises(x) == x = NoneValue

\* get_control_parameters() under an interpreter whose __debug__ is debug,
\* with r1 and the draws of randn and randc
SHADE_get_control_parameters(mem, debug, r1, randn_draw, draws) ==
    LET MF_i == mem.m_f[r1 + 1]
        MCR_i == mem.m_cr[r1 + 1]
    IN  IF debug /\ (isnan_raises(MF_i) \/ isnan_raises(MCR_i))
        THEN [raised |-> "TypeError", r1 |-> r1, randn |-> randn_draw, randc |-> draws,
              CR_i |-> 0, F_i |-> 0]
        ELSE [raised |-> "none", r1 |-> r1, randn |-> randn_draw, randc |-> draws,
              CR_i |-> IF MCR_i = NoneValue THEN 0 ELSE clip(randn_draw, 0, Grid),
              F_i |-> SHADE_F_i(draws)]

\* the largest NFE counter a call is made at
MaxNfe == 3
\* the values of LSHADE._nfe and of MAX_NFE the calls are made with
NfeValues == 0 .. MaxNfe
MaxNfeValues == 1 .. 2

RationalPlus(x, y) == Frac(x.num * y.den + y.num * x.den, x.den * y.den)
RationalMinus(x, y) == Frac(x.num * y.den - y.num * x.den, x.den * y.den)
RationalTimes(x, y) == Frac(x.num * y.num, x.den * y.den)

\* curve(x, k=5)
curve(x) == IntPow(x, 5)

\* the guide of DecayingLSHADE and GuidedLSHADE at nfe / max_nfe: the line
\* or the curve from 1.0 down (the logistic guide is left out)
Guide(type, at_nfe, max_nfe) ==
    IF type = "linear" THEN RationalMinus(Rational(1, 1), Frac(at_nfe, max_nfe))
    ELSE RationalMinus(Rational(1, 1), curve(Frac(at_nfe, max_nfe)))

\* a decay that stops at the end of the guide
decay_function_floored(type, f, at_nfe, max_nfe) ==
    IF at_nfe >= max_nfe THEN Rational(0, 1)
    ELSE RationalTimes(f, Guide(type, at_nfe, max_nfe))

\* DecayingLSHADE.decay_function
decay_function(type, f, at_nfe, max_nfe) == RationalTimes(f, Guide(type, at_nfe, max_nfe))

\* the default of GuidedLSHADE's strength
strength == Rational(1, 2)

\* GuidedLSHADE.guide_function
guide_function(type, f, at_nfe, max_nfe) ==
    RationalPlus(f, RationalTimes(RationalMinus(Guide(type, at_nfe, max_nfe), f), strength))

\* the pair the get_control_parameters() of the evolver config returns with
\* _nfe at at_nfe, made of the pair base of SHADE.get_control_parameters
Returned(config, at_nfe, base) ==
    [nfe |-> at_nfe,
     raised |-> base.raised,
     CR_i |-> Frac(base.CR_i, Grid),
     F_i |-> CASE config.evolver = "DecayingLSHADE" ->
                     decay_function(config.type, Frac(base.F_i, Grid), at_nfe,
                                    config.MAX_NFE)
               [] config.evolver = "GuidedLSHADE" ->
                     guide_function(config.type, Frac(base.F_i, Grid), at_nfe,
                                    config.MAX_NFE)
               [] OTHER -> Frac(base.F_i, Grid)]

\* the assertions of HistoricalMemory.record
HistoricalMemory_record_asserts(cr_i, f_i) ==
    /\ RationalLE(Rational(0, 1), cr_i) /\ RationalLE(cr_i, Rational(1, 1))
    /\ RationalLE(Rational(0, 1), f_i)

NoParameters ==
    [memory |-> [m_cr |-> <<>>, m_f |-> <<>>], debug |-> TRUE,
     call |-> [raised |-> "none", r1 |-> 0 - 1, randn |-> 0, randc |-> <<>>,
               CR_i |-> 0, F_i |-> 0],
     config |-> [evolver |-> "SHADE", type |-> "none", MAX_NFE |-> 1],
     returned |-> [nfe |-> 0 - 1, raised |-> "none", CR_i |-> Rational(0, 1),
                   F_i |-> Rational(0, 1)]]

IdleGcp == gcp = NoParameters

\* a SHADE evolver with any contents of its historical memory
InitGcp ==
    \E debug \in BOOLEAN :
       \E m_cr \in [1 .. MemorySize -> MCRValues], m_f \in [1 .. MemorySize -> MFValues] :
          gcp = [memory |-> [m_cr |-> m_cr, m_f |-> m_f], debug |-> debug,
                 call |-> NoParameters.call, config |-> NoParameters.config,
                 returned |-> NoParameters.returned]

\* a DecayingLSHADE or a GuidedLSHADE as constructed, with a linear or a
\* curved guide: every slot of the historical memory holds its default
InitGuide ==
    \E debug \in BOOLEAN, evo \in {"DecayingLSHADE", "GuidedLSHADE"},
       type \in {"linear", "curve"}, max_nfe \in MaxNfeValues :
          gcp = [memory |-> [m_cr |-> [j \in 1 .. MemorySize |-> Frac(F_MAX - F_MIN, 2 * Grid)],
                             m_f |-> [j \in 1 .. MemorySize |-> Frac(F_MAX - F_MIN, 2 * Grid)]],
                 debug |-> debug, call |-> NoParameters.call,
                 config |-> [evolver |-> evo, type |-> type, MAX_NFE |-> max_nfe],
                 returned |-> NoParameters.returned]

\* one call of the evolver's get_control_parameters() with _nfe at at_nfe
Evolver_control(at_nfe, r1, randn_draw, draws) ==
    /\ gcp.memory.m_cr # <<>>
    /\ LET base == SHADE_get_control_parameters(gcp.memory, gcp.debug, r1, randn_draw, draws)
       IN  gcp' = [gcp EXCEPT !.call = base,
                              !.returned = Returned(gcp.config, at_nfe, base)]
    /\ UNCHANGED <<poolVars, ctlVars, evoVars, emitted, hpVars, ee>>

\* one call of get_control_parameters() of SHADE or LSHADE
SHADE_control(r1, randn_draw, draws) ==
    /\ gcp.config.evolver = "SHADE"
    /\ Evolver_control(0, r1, randn_draw, draws)

\* DecayingLSHADE.get_control_parameters() with _nfe at at_nfe
DecayingLSHADE_get_control_parameters(at_nfe, r1, randn_draw, draws) ==
    /\ gcp.config.evolver = "DecayingLSHADE"
    /\ Evolver_control(at_nfe, r1, randn_draw, draws)

\* GuidedLSHADE.get_control_parameters() with _nfe at at_nfe
GuidedLSHADE_get_control_parameters(at_nfe, r1, randn_draw, draws) ==
    /\ gcp.config.evolver = "GuidedLSHADE"
    /\ Evolver_control(at_nfe, r1, randn_draw, draws)

\* "constrained" of DifferentialEvolution.mutate without its clip
DifferentialEvolution_constrained_raw(mutant) == mutant

\* "constrained" of DifferentialEvolution.mutate
DifferentialEvolution_constrained(mutant) == clip(mutant, 0, Unit)

\* "constrained" of SHADE.mutate
SHADE_constrained(base, mutant) == halving(base, mutant, 0, Unit)

NoCoordinate == [evolver |-> "none", drew |-> <<>>, raw |-> 0, u |-> 0]

IdleFn == IdleHp /\ IdleEE /\ IdleGcp

InitMut == emitted = NoCoordinate /\ IdleFn

IdleMut == emitted = NoCoordinate /\ IdleFn

\* Each behaviour writes one coordinate: the rules below are pure functions of
\* what they draw and read.

\* RandomWalk.mutate, one coordinate of the explorer
RandomWalk_mutate(u, perturb_factor) ==
    /\ emitted = NoCoordinate
    /\ emitted' = [evolver |-> "RandomWalk", drew |-> <<u, perturb_factor>>,
                   raw |-> Times(perturb_factor, u),
                   u |-> Hyperparameter_mul(u, perturb_factor)]
    /\ UNCHANGED <<poolVars, ctlVars, evoVars, fnVars>>

\* ExploitAndExplore.__explore, one coordinate of the explorer
ExploitAndExplore_explore(u, perturb_factor) ==
    /\ emitted = NoCoordinate
    /\ emitted' = [evolver |-> "ExploitAndExplore", drew |-> <<u, perturb_factor>>,
                   raw |-> Times(perturb_factor, u),
                   u |-> Hyperparameter_mul(u, perturb_factor)]
    /\ UNCHANGED <<poolVars, ctlVars, evoVars, fnVars>>

\* DifferentialEvolution.mutate, one coordinate j of the trial; cross is
\* "random.uniform(0.0, 1.0) <= self.Cr or j == j_rand"
DifferentialEvolution_trial(Fv, cross, member_j, x_r0, x_r1, x_r2) ==
    /\ emitted = NoCoordinate
    /\ emitted' = [evolver |-> "DifferentialEvolution",
                   drew |-> <<Fv, IF cross THEN 1 ELSE 0, member_j, x_r0, x_r1, x_r2>>,
                   raw |-> IF cross THEN de_rand_1(Fv, x_r0, x_r1, x_r2) ELSE member_j,
                   u |-> IF cross
                           THEN DifferentialEvolution_constrained(
                                    de_rand_1(Fv, x_r0, x_r1, x_r2))
                           ELSE member_j]
    /\ UNCHANGED <<poolVars, ctlVars, evoVars, fnVars>>

\* SHADE.mutate, one coordinate j of the trial; F_i is the one of SHADE, of
\* L-SHADE or of its decaying and guided variants
SHADE_trial(F_i, cross, member_j, x_pbest, x_r1, x_r2) ==
    /\ emitted = NoCoordinate
    /\ emitted' = [evolver |-> "SHADE",
                   drew |-> <<F_i, IF cross THEN 1 ELSE 0, member_j, x_pbest, x_r1, x_r2>>,
                   raw |-> IF cross
                             THEN de_current_to_best_1(F_i, member_j, x_pbest, x_r1, x_r2)
                             ELSE member_j,
                   u |-> IF cross
                           THEN SHADE_constrained(member_j,
                                    de_current_to_best_1(F_i, member_j, x_pbest, x_r1, x_r2))
                           ELSE member_j]
    /\ UNCHANGED <<poolVars, ctlVars, evoVars, fnVars>>

\* ------------------------------------------------------------------------
\* Specifications
\* ------------------------------------------------------------------------
NextPool ==
    \/ \E w \in Workers : Worker_check(w)
    \/ \E w \in Workers : Worker_get(w)
    \/ \E w \in Workers : Worker_finish(w)
    \/ \E w \in Workers : Worker_fail(w)
    \/ WorkerPool_start
    \/ WorkerPool_stop
    \/ WorkerPool_stop_join
    \/ \E n \in 0 .. MaxJobs : WorkerPool_train(n)
    \/ WorkerPool_train_get
    \/ WorkerPool_train_end
    \/ Train_next
    \/ TrainingService_start
    \/ TrainingService_stop
    \/ \E n \in 0 .. MaxJobs : TrainingService_train(n)
    \/ TrainingService_train_get
    \/ TrainingService_train_end

\* the draws of get_control_parameters() the evolver runs follow: every
\* member draws 1.0
ControlDraws(ids) == {[i \in ids |-> F_MAX]}
\* the CR_i and the F_i a caller records: 0.0 .. 1.0 and, F_i being
\* positive, 1 / Grid .. 1.0
CRDraws == 0 .. Grid
FDraws == 0 .. Grid

NextEvo ==
    \/ EvolveEngine_on_generation_start
    \/ DifferentialEvolution_mutate
    \/ \E i \in unselected, ps \in Scores, ts \in Scores : DifferentialEvolution_select(i, ps, ts)
    \/ EvolveEngine_on_generation_end
    \/ SHADE_on_generation_start
    \/ \E cr \in ControlDraws(DOMAIN generation), f \in ControlDraws(DOMAIN generation),
          hit \in BOOLEAN : SHADE_mutate(cr, f, hit)
    \/ \E i \in unselected, ts \in Scores, k \in RandomIndexes : SHADE_select(i, ts, k)
    \/ \E i \in unselected, ts \in Scores, k \in RandomIndexes : LSHADE_select(i, ts, k)
    \/ \E i \in unselected : LSHADE_select_raises(i)
    \/ SHADE_on_generation_end
    \/ LSHADE_on_generation_end

NextMem ==
    \/ \E cr_i \in CRDraws, f_i \in FDraws, delta_score \in Scores :
          Memory_record(cr_i, f_i, delta_score)
    \/ Memory_reset
    \/ Memory_update

NextSel ==
    \E i \in unselected, ts \in Scores, k \in RandomIndexes : SHADE_select(i, ts, k)

NextMut ==
    \/ \E u \in Coordinates, pf \in Factors : RandomWalk_mutate(u, pf)
    \/ \E u \in Coordinates, pf \in Factors : ExploitAndExplore_explore(u, pf)
    \/ \E Fv \in Factors, cross \in BOOLEAN, m, x0, x1, x2 \in Coordinates :
          DifferentialEvolution_trial(Fv, cross, m, x0, x1, x2)
    \/ \E Fv \in Factors, cross \in BOOLEAN, m, xb, x1, x2 \in Coordinates :
          SHADE_trial(Fv, cross, m, xb, x1, x2)

NextHp ==
    \/ \E value \in Numbers \cup Items : Hyperparameter_set_value(value)
    \/ Hyperparameter_value
    \/ \E op \in Operators, other \in Scalars : Hyperparameter_operator(op, other)
    \/ \E op \in Operators, other \in Scalars : Hyperparameter_assign(op, other)

NextEE ==
    \E k \in 1 .. MaxMembers, pf \in explore_factors : ExploitAndExplore_mutate(k, pf)

NextGcp ==
    \E r1 \in 0 .. (MemorySize - 1), randn_draw \in RandnDraws, draws \in DrawSequences :
       SHADE_control(r1, randn_draw, draws)

NextGuide ==
    \E at_nfe \in NfeValues, r1 \in 0 .. (MemorySize - 1), randn_draw \in RandnDraws,
       draws \in DrawSequences :
          \/ DecayingLSHADE_get_control_parameters(at_nfe, r1, randn_draw, draws)
          \/ GuidedLSHADE_get_control_parameters(at_nfe, r1, randn_draw, draws)

vars == <<poolVars, ctlVars, evoVars, mutVars>>

InitPoolSpec == InitPool /\ IdleCtl /\ IdleEvo /\ IdleMut
InitCtlSpec == InitCtl /\ IdlePool /\ IdleEvo /\ IdleMut
\* the members of a DifferentialEvolution run minimize or maximize
InitEvoSpec ==
    /\ InitEvo
    /\ IdlePool
    /\ \E min \in BOOLEAN : (min => engine = "DifferentialEvolution") /\ IdleCtlWith(min)
    /\ IdleMut
InitMemSpec == InitMem /\ IdlePool /\ IdleCtl /\ IdleMut
InitMutSpec == InitMut /\ IdlePool /\ IdleCtl /\ IdleEvo
InitSelSpec == InitSel /\ IdlePool /\ (\E min \in BOOLEAN : IdleCtlWith(min)) /\ IdleMut
InitHpSpec ==
    InitHp /\ IdleEE /\ IdleGcp /\ emitted = NoCoordinate /\ IdlePool /\ IdleCtl /\ IdleEvo
InitEESpec ==
    InitEE /\ IdleHp /\ IdleGcp /\ emitted = NoCoordinate /\ IdlePool /\ IdleCtl /\ IdleEvo
InitGcpSpec ==
    InitGcp /\ IdleHp /\ IdleEE /\ emitted = NoCoordinate /\ IdlePool /\ IdleCtl /\ IdleEvo
InitGuideSpec ==
    InitGuide /\ IdleHp /\ IdleEE /\ emitted = NoCoordinate /\ IdlePool /\ IdleCtl /\ IdleEvo

SpecPool == InitPoolSpec /\ [][NextPool]_vars
SpecCtl == InitCtlSpec /\ [][NextCtl]_vars
SpecEvo == InitEvoSpec /\ [][NextEvo]_vars
SpecMem == InitMemSpec /\ [][NextMem]_vars
SpecMut == InitMutSpec /\ [][NextMut]_vars
SpecSel == InitSelSpec /\ [][NextSel]_vars
SpecHp == InitHpSpec /\ [][NextHp]_vars
SpecEE == InitEESpec /\ [][NextEE]_vars
SpecGcp == InitGcpSpec /\ [][NextGcp]_vars
SpecGuide == InitGuideSpec /\ [][NextGuide]_vars

\* ------------------------------------------------------------------------
\* Properties
\* ------------------------------------------------------------------------
Range(q) == {q[j] : j \in DOMAIN q}
IsPrefix(p, q) == Len(p) <= Len(q) /\ \A j \in 1 .. Len(p) : p[j] = q[j]

C2_NfeCountsSelects ==
    /\ nfe = selects
    /\ (cpc \in {"created", "initial"} => nfe = 0)

\* a run that ended on its criteria after at least two selects
C2_Witness == left = "criteria" /\ selects >= 2 /\ nfe >= 2

\* The hooks from position i on are in order, given the phase of the
\* generation cycle, the index g of the generation being evolved from and
\* the number k of selects still due.
RECURSIVE HooksOrdered(_, _, _, _)
HooksOrdered(i, phase, g, k) ==
    IF i > Len(hooks) THEN TRUE
    ELSE LET e == hooks[i]
         IN  CASE e.hook = "on_generation_start" ->
                    phase = "ended" /\ e.gen = g /\ HooksOrdered(i + 1, "started", g, 0)
               [] e.hook = "mutate" ->
                    phase = "started" /\ e.gen = g /\ HooksOrdered(i + 1, "mutated", g, e.n)
               [] e.hook = "select" ->
                    /\ phase = "mutated" /\ e.gen = g /\ k > 0
                    /\ HooksOrdered(i + 1, "mutated", g, k - 1)
               [] e.hook = "on_generation_end" ->
                    /\ phase = "mutated" /\ k = 0 /\ e.gen = g
                    /\ HooksOrdered(i + 1, "ended", g + 1, 0)
               [] OTHER -> FALSE

\* C3: the hooks of a run come generation by generation as
\* on_generation_start, mutate (all candidates, from the current
\* generation), every select of that generation, on_generation_end; nothing
\* of the next generation comes before on_generation_end; and every
\* candidate in training was built from the completed current generation.
C3_HookOrder ==
    /\ HooksOrdered(1, "ended", 0, 0)
    /\ (cpc = "train" =>
          \A c \in candidates :
              /\ c.from = generations - 1
              /\ c.id \in DOMAIN current
              /\ c.steps = current[c.id].steps)

\* two generations of two members have been evolved
C3_Witness == generations = 3 /\ cpc = "loop" /\ Len(hooks) = 10

\* an end criterion is active when its key is present and not None, and
\* holds as the claim says
CriterionHolds ==
    \/ (end_criteria.steps # None
        /\ \A i \in DOMAIN current : current[i].steps >= end_criteria.steps)
    \/ (end_criteria.nfe # None /\ nfe >= end_criteria.nfe)
    \/ (end_criteria.score # None
        /\ \E i \in DOMAIN current : MemberReaches(current[i], end_criteria.score))

\* C4: the controller starts another generation only while no active end
\* criterion holds, and leaves the loop on its criteria only when one holds.
C4_StopsExactlyOnCriteria ==
    /\ (cpc = "evolve" => ~CriterionHolds)
    /\ (left = "criteria" => CriterionHolds)

\* a train() call can go on: a result waits, the loop is over, or a live
\* worker is training or can take a job
TrainCanGoOn ==
    \/ returnQ # <<>>
    \/ (svc = "WorkerPool" /\ ~TrainLoopCondition)
    \/ (svc = "TrainingService" /\ nReturned = nSent)
    \/ \E w \in Workers : wstate[w] = "busy"
    \/ \E w \in Workers : IsAlive(w) /\ recvQ[QueueOf(w)] # <<>>

\* C5: while no worker has failed, train() yields the results in the order
\* the workers complete them; it can always go on while the pool runs; and
\* when it ends it has yielded each of the n jobs once and ends without
\* error.
C5_YieldsEveryResult ==
    crashed = {} =>
        /\ IsPrefix(yielded, completed)
        /\ (tpc = "waiting" /\ AliveSet = Workers => TrainCanGoOn)
        /\ (tpc = "ended" =>
              /\ outcome = "ok"
              /\ Len(yielded) = nSent
              /\ Range(yielded) = 1 .. nSent)

\* two jobs, completed and yielded in the order 2, 1
C5_Witness ==
    /\ tpc = "ended" /\ crashed = {} /\ outcome = "ok"
    /\ nSent = 2 /\ yielded = <<2, 1>>

\* train() waits on an empty return queue that nothing will fill, with a
\* FailMessage noted and a worker that has not failed
TrainBlocked ==
    /\ svc = "WorkerPool"
    /\ tpc = "waiting"
    /\ TrainLoopCondition
    /\ failed # {}
    /\ crashed # Workers
    /\ returnQ = <<>>
    /\ \A w \in Workers : wstate[w] # "busy"
    /\ \A q \in DOMAIN recvQ : recvQ[q] = <<>>

\* C6: a train() call in which a worker has published a FailMessage while
\* another has not failed never blocks for ever on the result channel.
C6_TrainNeverBlocks == ~TrainBlocked

\* C7: once every worker has published a FailMessage in a WorkerPool
\* train() call, the call does not block (a message waits or its loop is
\* over) and it ends in the 'all workers failed' error, never normally.
C7_AllFailedRaises ==
    (svc = "WorkerPool" /\ \A w \in Workers : w \in failed \/ FailMessage(w) \in Range(returnQ))
        => /\ (tpc = "waiting" => returnQ # <<>> \/ ~TrainLoopCondition)
           /\ (tpc = "ended" => outcome = "error_all_workers_failed")

\* every worker failed and the call has ended in the error
C7_Witness ==
    /\ svc = "WorkerPool" /\ tpc = "ended" /\ failed = Workers
    /\ outcome = "error_all_workers_failed"

\* C8: once stop(), called on a running pool or training service, has
\* returned, no worker is alive.
C8_StopLeavesNoWorker ==
    (lastCall.op = "stop" /\ lastCall.running /\ spc = "idle") => AliveSet = {}

C10_AlwaysStops ==
    /\ (left = "no" => stops = 0 /\ cpc \notin {"returned", "raised"})
    /\ (left # "no" => stops = 1 /\ cpc \in {"returned", "raised"})
    /\ (left = "interrupted" => cpc = "returned")
    /\ (left = "error" => cpc = "raised")

\* start() was interrupted in an evolved generation and returned
C10_Witness == left = "interrupted" /\ cpc = "returned" /\ stops = 1 /\ generations >= 1

\* C11: under L-SHADE the size of a generation never grows from one step to
\* the next, and every generation has at least N_MIN and at most N_INIT
\* members.
C11_SizeAtLeastNMin ==
    engine = "LSHADE" =>
        /\ Cardinality(DOMAIN generation) >= N_MIN
        /\ Cardinality(DOMAIN generation) <= N_INIT

\* the sizes of successive generations are non-increasing
C11_SizesNonIncreasing ==
    [][Cardinality(DOMAIN generation') <= Cardinality(DOMAIN generation)]_vars

\* a step of LSHADE.on_generation_end
LSHADE_end_step == engine = "LSHADE" /\ epc = "select" /\ epc' = "start"

\* C12: L-SHADE's on_generation_end with NFE counter n and generation G
\* computes N_new = round(((N_MIN - N_INIT) / MAX_NFE) * n + N_INIT); when
\* N_new < |G| the generation keeps N_new members, the members kept are
\* unchanged and no member removed is better than one kept; otherwise the
\* generation is unchanged.
C12_ResizeRemovesWorst ==
    [][LSHADE_end_step =>
          IF NewSize < Cardinality(DOMAIN generation)
            THEN /\ Cardinality(DOMAIN generation') = NewSize
                 /\ DOMAIN generation' \subseteq DOMAIN generation
                 /\ \A m \in DOMAIN generation' : generation'[m] = generation[m]
                 /\ \A m \in DOMAIN generation', r \in (DOMAIN generation) \ DOMAIN generation' :
                        ParentLE(generation[r], generation[m])
            ELSE generation' = generation]_vars

\* C13: an L-SHADE on_generation_end that shrinks the generation to N_new
\* members leaves the archive with the capacity round(N_new * r_arc); one
\* that does not shrink it leaves the capacity unchanged.
C13_CapacityRounded ==
    [][LSHADE_end_step =>
          IF NewSize < Cardinality(DOMAIN generation)
            THEN archive_size'.num
                    = Round(NewSize * r_arc.num, r_arc.den) * archive_size'.den
            ELSE archive_size' = archive_size]_vars

\* a is weakly better than b: its score is at least (when minimizing, at
\* most) the score of b
WeaklyBetter(a, b) == IF minimize THEN a <= b ELSE a >= b

\* C14: DifferentialEvolution.select returns the trial exactly when the
\* trial is weakly better than the parent, a tie included, and the parent
\* otherwise; what it returns is never worse than the parent.
C14_SelectKeepsBetter ==
    lastSelect.op = "DifferentialEvolution.select" =>
        /\ (lastSelect.took = "trial") = WeaklyBetter(lastSelect.trial, lastSelect.parent)
        /\ lastSelect.took \in {"trial", "parent"}
        /\ WeaklyBetter(IF lastSelect.took = "trial" THEN lastSelect.trial
                         ELSE lastSelect.parent, lastSelect.parent)

\* a tie between parent and trial went to the trial, minimizing
C14_Witness ==
    /\ lastSelect.op = "DifferentialEvolution.select"
    /\ minimize
    /\ lastSelect.parent = lastSelect.trial
    /\ lastSelect.took = "trial"

\* C15: every coordinate an evolver's mutate writes to a candidate, from a
\* generation whose coordinates lie in [0, 1], lies in [0, 1].
C15_Normalized == emitted.evolver # "none" => 0 <= emitted.u /\ emitted.u <= Unit

\* SHADE.mutate drew a mutant above 1 and wrote the midpoint of the parent's
\* coordinate and 1
C15_Witness ==
    /\ emitted.evolver = "SHADE"
    /\ emitted.raw > Unit
    /\ emitted.u = (emitted.drew[3] + Unit) \div 2

\* the value v is the weighted Lehmer mean of the samples S:
\* v * sum(w * s) = sum(w * s * s), with a mean to speak of
IsLehmerMean(v, S, weights) ==
    /\ v.den # 0
    /\ SumSeq([j \in DOMAIN S |-> weights[j] * S[j]]) # 0
    /\ v.num * SumSeq([j \in DOMAIN S |-> weights[j] * S[j]])
         = v.den * SumSeq([j \in DOMAIN S |-> weights[j] * S[j] * S[j]])

\* C16: with no sample recorded since the last reset, HistoricalMemory.update
\* leaves M_F, M_CR and the write cursor k as they were.
C16_UpdateWithoutSamples ==
    [][(memop' = "update" /\ memory.s_cr = <<>>) => memory' = memory]_vars

\* an update found the buffers empty after an earlier update had advanced
\* the cursor and a reset had emptied them
C16_Witness == memop = "update" /\ memory.s_cr = <<>> /\ memory.k = 1

\* C17: with a sample recorded, HistoricalMemory.update writes the weighted
\* Lehmer mean of S_F to M_F[k], None to M_CR[k] if it was None or no S_CR
\* is above 0 and else the weighted Lehmer mean of S_CR, changes no other
\* slot and moves k to (k + 1) mod H; k stays in [0, H) and a slot of M_CR
\* that is None stays None.
C17_UpdateWritesLehmerMean ==
    [][/\ (memop' = "update" /\ memory.s_cr # <<>>) =>
            /\ IsLehmerMean(memory'.m_f[memory.k + 1], memory.s_f, memory.weights)
            /\ IF memory.m_cr[memory.k + 1] = NoneValue
                    \/ (\A j \in DOMAIN memory.s_cr : memory.s_cr[j] = 0)
                 THEN memory'.m_cr[memory.k + 1] = NoneValue
                 ELSE IsLehmerMean(memory'.m_cr[memory.k + 1], memory.s_cr,
                                   memory.weights)
            /\ \A j \in (DOMAIN memory.m_f) \ {memory.k + 1} :
                  memory'.m_f[j] = memory.m_f[j] /\ memory'.m_cr[j] = memory.m_cr[j]
            /\ memory'.k = (memory.k + 1) % MemorySize
       /\ memory'.k \in 0 .. (MemorySize - 1)
       /\ \A j \in DOMAIN memory.m_cr :
             memory.m_cr[j] = NoneValue => memory'.m_cr[j] = NoneValue]_vars

\* |trial.score() - parent.score()|
AbsDelta(parent, trial) == IF trial >= parent THEN trial - parent ELSE parent - trial

\* SHADE.select(parent, trial) of member i in this step: on a weakly better
\* trial one copy of the parent enters the archive (in place of a random
\* element when the archive is full), one sample (CR_i, F_i, weight) enters
\* the buffers and the trial is returned; else the parent is returned and
\* archive and memory are as they were
SelectEffect(i, weight) ==
    LET parent == generation[i]
        trial == lastSelect'.trial
    IN  /\ lastSelect'.parent = parent
        /\ IF WeaklyBetter(trial, parent)
             THEN /\ lastSelect'.took = "trial"
                  /\ generation'[i] = trial
                  /\ Len(archive') = IF ArchiveFull(archive, archive_size)
                                       THEN Len(archive) ELSE Len(archive) + 1
                  /\ archive' # <<>> /\ archive'[Len(archive')] = parent
                  /\ memory'.s_cr = Append(memory.s_cr, CR[i])
                  /\ memory'.s_f = Append(memory.s_f, F[i])
                  /\ memory'.weights = Append(memory.weights, weight)
                  /\ memory'.m_cr = memory.m_cr /\ memory'.m_f = memory.m_f
                  /\ memory'.k = memory.k
             ELSE /\ lastSelect'.took = "parent"
                  /\ generation'[i] = parent
                  /\ archive' = archive
                  /\ memory' = memory

\* C18 as stated: the recorded weight is |trial.score - parent.score|
C18_SelectRecordsDelta ==
    [][\A i \in unselected : unselected' = unselected \ {i} =>
          SelectEffect(i, AbsDelta(generation[i], lastSelect'.trial) * DeltaScale)]_vars

\* C18: SHADE.select archives the parent, records (CR_i, F_i, weight) and
\* returns the trial when the trial is weakly better, the weight being
\* |trial.score - parent.score| or, when that is 0, 1e-9; else it returns the
\* parent and leaves archive and memory alone.
C18_SelectRecordsPositiveDelta ==
    [][\A i \in unselected : unselected' = unselected \ {i} =>
          SelectEffect(i, IF AbsDelta(generation[i], lastSelect'.trial) = 0
                            THEN MinDelta
                            ELSE AbsDelta(generation[i], lastSelect'.trial)
                                   * DeltaScale)]_vars

\* a trial that ties with its parent was selected on a full archive and its
\* sample recorded with weight 1e-9
C18_Witness ==
    /\ lastSelect.op = "SHADE.select"
    /\ lastSelect.took = "trial"
    /\ lastSelect.parent = lastSelect.trial
    /\ lastAppend.before = lastAppend.after /\ lastAppend.after > 0
    /\ memory.weights # <<>>
    /\ memory.weights[Len(memory.weights)] = MinDelta

\* C19: DifferentialEvolution.mutate on fewer than 3 members and SHADE.mutate
\* on fewer than 4 members raise, and no candidate of that generation is
\* emitted: none awaits its select and the generation is as it was.
C19_DegeneratePopulationRaises ==
    [][(/\ epc = "mutate"
        /\ \/ engine = "DifferentialEvolution" /\ Cardinality(DOMAIN generation) < 3
           \/ engine \in {"SHADE", "LSHADE"} /\ Cardinality(DOMAIN generation) < 4)
       => (epc' = "raised" /\ unselected' = {} /\ generation' = generation)]_vars

\* SHADE.mutate raised on the 3 members L-SHADE's reduction had left
C19_Witness ==
    /\ engine = "LSHADE"
    /\ epc = "raised"
    /\ memop = "reset"
    /\ Cardinality(DOMAIN generation) = 3
    /\ unselected = {}

\* C20: for every member id the steps of the snapshots the controller has
\* persisted are non-decreasing in the order they were persisted.
C20_MonotoneSteps ==
    \A id \in DOMAIN database : \A a, b \in DOMAIN database[id] :
        a <= b => database[id][a] <= database[id][b]

\* a member persisted after the initial generation and again after each of
\* two evolved generations
C20_Witness == \E id \in DOMAIN database : Len(database[id]) >= 3

\* the ids of the candidates in training
CandidateIds == {c.id : c \in candidates}

\* C21: the ids of a generation are pairwise distinct and a candidate, hence
\* the survivor select returns for it, carries the id of the member it was
\* built from: each generation has the ids 0 .. population_size - 1 once
\* each, every survivor filling the slot of its own parent.
C21_IdStable ==
    /\ \A c \in candidates : c.id = c.parent
    /\ cpc \in {"initial", "train"} =>
          /\ CandidateIds \cap DOMAIN new_generation = {}
          /\ CandidateIds \cup DOMAIN new_generation = 0 .. (population_size - 1)
          /\ Cardinality(candidates) + Cardinality(DOMAIN new_generation)
                = population_size
    /\ generations >= 1 => DOMAIN current = 0 .. (population_size - 1)

\* a generation of two members has been evolved and the second member of
\* the next is in training
C21_Witness ==
    /\ generations = 2 /\ cpc = "train"
    /\ DOMAIN current = {0, 1}
    /\ DOMAIN new_generation = {0} /\ CandidateIds = {1}

\* v clamped to the bounds of the hyperparameter h, in units of 1/2
Clamped(h, v) ==
    IF v.x < get_lower_bound(h).x THEN Rational(get_lower_bound(h).x, 1)
    ELSE IF v.x > get_upper_bound(h).x THEN Rational(get_upper_bound(h).x, 1)
    ELSE Rational(v.x, 1)

\* C22: for a continuous hyperparameter with bounds (a, b), a <= b,
\* set_value(v) of a number v completes and leaves a normalized value in
\* [0, 1], and the value() that follows returns v when v lies in [a, b], a
\* when v < a and b when v > b.
C22_SetThenValue ==
    [][/\ (hpcall'.method = "set_value" /\ ~hp.is_categorical
              /\ hpcall'.arg.type \in {"int", "float"})
          => /\ hpcall'.raised = "none"
             /\ RationalLE(Rational(0, 1), hp'.value)
             /\ RationalLE(hp'.value, Rational(1, 1))
       /\ (hpcall.method = "set_value" /\ hpcall'.method = "get_value"
              /\ ~hp.is_categorical /\ hpcall.arg.type \in {"int", "float"})
          => /\ hpcall'.raised = "none"
             /\ hpcall'.ret = Clamped(hp, hpcall.arg)]_vars

\* C23: a categorical hyperparameter over a list of at least two items is
\* constructed without an exception, and for every item c of its list
\* set_value(c) completes and the value() that follows returns c.
C23_CategoricalRoundTrip ==
    /\ [](hp.is_categorical => hp.state = "ok")
    /\ [][/\ (hpcall'.method = "set_value" /\ hp.is_categorical
                 /\ hpcall'.arg \in {hp.search_space[j] : j \in DOMAIN hp.search_space})
             => hpcall'.raised = "none"
          /\ (hpcall.method = "set_value" /\ hpcall.raised = "none"
                 /\ hpcall'.method = "get_value" /\ hp.is_categorical)
             => /\ hpcall'.raised = "none"
                /\ hpcall'.ret = Rational(hpcall.arg.x, 1)]_vars

\* x op y is a real number
RealValued(op, x, y) ==
    Arithmetic(op, x, y).raised = "none" /\ Arithmetic(op, x, y).ret # ComplexValue

\* C24: on a hyperparameter with a stored u, each binary operator (+, -, *,
\* /, power) applied with a scalar s returns clip(s op u, 0, 1), a value in
\* [0, 1], and leaves the stored u as it was; each in-place operator stores
\* u op s, not clipped. (Where s op u, or u op s, is a real number.)
C24_Operators ==
    [][/\ (hpcall'.method = "binary" /\ hp.value # NoneValue
              /\ RealValued(hpcall'.op, hpcall'.other, hp.value))
          => /\ hpcall'.raised = "none"
             /\ hpcall'.ret = Hyperparameter_clip(
                                  Arithmetic(hpcall'.op, hpcall'.other, hp.value).ret, 0, 1)
             /\ RationalLE(Rational(0, 1), hpcall'.ret)
             /\ RationalLE(hpcall'.ret, Rational(1, 1))
             /\ hp'.value = hp.value
       /\ (hpcall'.method = "inplace" /\ hp.value # NoneValue
              /\ RealValued(hpcall'.op, hp.value, hpcall'.other))
          => /\ hpcall'.raised = "none"
             /\ hp'.value = Arithmetic(hpcall'.op, hp.value, hpcall'.other).ret]_vars

\* the number of elitists the generation of ee has: max(1, round(|G| *
\* exploit_factor))
C25_Count ==
    LET rounded == Round(Len(ee.generation) * ee.exploit_factor.num, ee.exploit_factor.den)
    IN  IF rounded < 1 THEN 1 ELSE rounded

\* the positions in the generation of its top C25_Count members: G sorted
\* descending by score, members of equal score in generation order
C25_Top ==
    {j \in DOMAIN ee.generation :
        SortedPosition(ee.generation, j, ee.minimize) <= C25_Count}

\* candidate j is member j unchanged
C25_Unchanged(j) ==
    /\ ee.candidates[j].u = ee.generation[j].u
    /\ ee.candidates[j].exploits = 0 - 1

\* C25 as stated: exactly the top max(1, round(|G| * exploit_factor))
\* members by score are emitted unchanged, and every other member is emitted
\* with its own id and the parameters of one of those elitists, each
\* coordinate multiplied by a factor of explore_factors.
C25_ExactlyTopUnchanged ==
    \A j \in DOMAIN ee.candidates :
       /\ ee.candidates[j].id = ee.generation[j].id
       /\ j \in C25_Top <=> C25_Unchanged(j)
       /\ j \notin C25_Top =>
             \E t \in C25_Top, f \in explore_factors :
                /\ ee.candidates[j].exploits = ee.generation[t].id
                /\ ee.candidates[j].u = Times(f, ee.generation[t].u)

\* C25, amended: the top members are emitted unchanged; every other member
\* keeps its id and is emitted unchanged too when its score equals that of
\* one of them, else with the parameters of one of them, each coordinate
\* the product with a factor of explore_factors clipped to [0, 1].
C25_TopUnchangedOthersExplore ==
    \A j \in DOMAIN ee.candidates :
       /\ ee.candidates[j].id = ee.generation[j].id
       /\ j \in C25_Top => C25_Unchanged(j)
       /\ j \notin C25_Top =>
             IF \E t \in C25_Top : ee.generation[t].score = ee.generation[j].score
             THEN C25_Unchanged(j)
             ELSE \E t \in C25_Top, f \in explore_factors :
                     /\ ee.candidates[j].exploits = ee.generation[t].id
                     /\ ee.candidates[j].u = clip(Times(f, ee.generation[t].u), 0, Unit)

\* a generation of three members mutated to its end with one elitist: one
\* member tied with the elitist, one explorer whose product left [0, 1]
C25_Witness ==
    /\ Len(ee.generation) = 3 /\ Len(ee.candidates) = 3
    /\ Cardinality(C25_Top) = 1
    /\ \E j \in DOMAIN ee.candidates : j \notin C25_Top /\ C25_Unchanged(j)
    /\ \E j \in DOMAIN ee.candidates, t \in C25_Top :
          /\ ee.candidates[j].exploits = ee.generation[t].id
          /\ Times(ee.candidates[j].explores, ee.generation[t].u) > Unit
          /\ ee.candidates[j].u = Unit

\* C26: when train() yields a member without trained state during a
\* generation, the controller does not persist it to the checkpoint store,
\* still counts it in NFE and goes on with the generation.
C26_MissingStateSkipped ==
    [][(selects' = selects + 1 /\ ~returned'.has_state)
          => /\ database' = database
             /\ nfe' = nfe + 1
             /\ cpc' = "train"]_vars

\* the end-criteria keys
C27_Keys == {"steps", "nfe", "score"}

\* the condition of key k is met by the current generation and the NFE count
C27_KeyHolds(k) ==
    CASE k = "steps" -> \A i \in DOMAIN current : current[i].steps >= end_criteria.steps
      [] k = "nfe" -> nfe >= end_criteria.nfe
      [] k = "score" ->
            \E i \in DOMAIN current : MemberReaches(current[i], end_criteria.score)

\* C27: every end-criteria key among steps, nfe and score whose value is not
\* null is active, whatever the value (0 and 0.0 included): at a generation
\* boundary where its condition is met no further generation is started;
\* a null key is inactive: a run over a non-empty population ends on its
\* criteria only where the condition of a key that is not null is met.
C27_NonNullKeysActive ==
    /\ [][\A k \in C27_Keys :
             (cpc = "loop" /\ end_criteria[k] # None /\ C27_KeyHolds(k))
                => cpc' # "evolve"]_vars
    /\ []((left = "criteria" /\ DOMAIN current # {})
             => \E k \in C27_Keys : end_criteria[k] # None /\ C27_KeyHolds(k))

\* C28: each LSHADE.select call completes, adds exactly one to the engine's
\* NFE counter and returns the survivor SHADE.select returns for the pair,
\* so that the counter moves in step with the controller's, which counts a
\* select once it has returned.
C28_LSHADESelectCompletes ==
    [][(engine = "LSHADE" /\ lshade_nfe' # lshade_nfe)
          => /\ lshade_nfe' = lshade_nfe + 1
             /\ epc' # "raised"
             /\ lastSelect'.op = "SHADE.select"
             /\ lastSelect'.took = Selected(lastSelect'.parent, lastSelect'.trial)]_vars

\* get_control_parameters has been called and has returned a pair
C29_Returned == gcp.call.r1 >= 0 /\ gcp.call.raised = "none"

\* C29: every pair (CR_i, F_i) SHADE.get_control_parameters returns has
\* f_min <= F_i <= f_max and 0 <= CR_i <= 1, whatever the historical memory
\* holds.
C29_ControlParametersInRange ==
    C29_Returned =>
       /\ F_MIN <= gcp.call.F_i /\ gcp.call.F_i <= F_MAX
       /\ 0 <= gcp.call.CR_i /\ gcp.call.CR_i <= Grid

\* a pair returned after a draw of randn above 1 for a slot whose M_CR is
\* set, a draw of randc below f_min and then one above f_max
C29_Witness ==
    /\ C29_Returned
    /\ gcp.memory.m_cr[gcp.call.r1 + 1] # NoneValue
    /\ gcp.call.randn > Grid
    /\ Len(gcp.call.randc) = 2
    /\ gcp.call.randc[1] < F_MIN /\ gcp.call.randc[2] > F_MAX

\* C30: when the slot get_control_parameters draws holds M_CR = None the
\* call completes without an exception and returns CR_i = 0.0.
C30_NoneRecovered ==
    (gcp.call.r1 >= 0 /\ gcp.memory.m_cr[gcp.call.r1 + 1] = NoneValue)
       => gcp.call.raised = "none" /\ gcp.call.CR_i = 0

\* what one round of the train loop makes of the new generation g and the
\* NFE count n when candidate c arrives trained to the scores ps and ts
C31_Round(g, n, c, ps, ts) ==
    [new_generation |-> (c.id :> Survivor(c, ps, ts)) @@ g, nfe |-> CountEvaluation(n)]

\* C31: for fixed trained candidates of a generation the new generation
\* (survivors by member id) and the NFE do not depend on the order in which
\* the results arrive: each round adds the survivor of the arriving
\* candidate under its id and one evaluation, whatever arrived before, and
\* the rounds of any two candidates still in training commute.
C31_ArrivalOrderIrrelevant ==
    /\ [][selects' = selects + 1 =>
             \E c \in candidates :
                /\ returned'.id = c.id
                /\ [new_generation |-> new_generation', nfe |-> nfe']
                      = C31_Round(new_generation, nfe, c, returned'.parent_score,
                                  returned'.trial_score)]_vars
    /\ [](cpc = "train" =>
             \A c1, c2 \in candidates : \A p1, t1, p2, t2 \in Scores :
                c1 # c2 =>
                   LET a == C31_Round(new_generation, nfe, c1, p1, t1)
                       b == C31_Round(new_generation, nfe, c2, p2, t2)
                   IN  C31_Round(a.new_generation, a.nfe, c2, p2, t2)
                          = C31_Round(b.new_generation, b.nfe, c1, p1, t1))

\* a DifferentialEvolution generation of three: the candidate of member 2
\* has arrived first, the two others are still in training
C31_Witness ==
    /\ evolver = "DifferentialEvolution" /\ cpc = "train" /\ generations = 1
    /\ DOMAIN new_generation = {2}
    /\ returned.id = 2
    /\ Cardinality(candidates) = 2

\* --- C32 ---

\* the entry of the dispatch log for the trial t
Entry(t) == CHOOSE h \in Range(handed) : h.call = t.call /\ h.id = t.id

\* the number of jobs the iterator has yielded the worker w for
JobsFor(w) == Cardinality({k \in 1 .. Len(handed) : handed[k].worker = w})

\* the rotation: job k (counted from 0) is put for worker k mod n_jobs, from
\* one train() call to the next, and no worker is two jobs ahead of another
C32_Rotation ==
    /\ \A k \in 1 .. Len(handed) : handed[k].worker = (k - 1) % NJobs
    /\ \A w1, w2 \in Workers : JobsFor(w1) - JobsFor(w2) \in {0 - 1, 0, 1}

\* C32 as stated: the pool dispatches round-robin, the k-th job submitted
\* since construction goes to worker k mod n_jobs, across train() calls, and
\* the numbers of jobs of two workers differ by at most one: the worker that
\* trains a job is the one the rotation names.
C32_RoundRobin ==
    svc = "WorkerPool" =>
       /\ C32_Rotation
       /\ \A w \in Workers : wjob[w] # NoJob => Entry(wjob[w]).worker = w

\* C32, amended: the k-th job submitted since construction is put on the
\* receive queue of worker k mod n_jobs, across train() calls, and the
\* numbers of jobs put for two workers differ by at most one; the job is
\* trained by a worker that reads that queue, which is the named worker when
\* no two workers share a device.
C32_RoundRobinOverQueues ==
    svc = "WorkerPool" =>
       /\ C32_Rotation
       /\ \A q \in DOMAIN recvQ : \A i \in 1 .. Len(recvQ[q]) :
             recvQ[q][i].kind = "trial" => QueueOf(Entry(recvQ[q][i]).worker) = q
       /\ \A w \in Workers :
             wjob[w] # NoJob => QueueOf(w) = QueueOf(Entry(wjob[w]).worker)
       /\ nDevices = NJobs =>
             \A w \in Workers : wjob[w] # NoJob => Entry(wjob[w]).worker = w

\* the second train() call goes on where the first one stopped, and a worker
\* trains a job of it
C32_Witness ==
    /\ svc = "WorkerPool"
    /\ call = 2
    /\ Len(handed) = 3
    /\ handed[1].call = 1
    /\ handed[2].call = 2 /\ handed[2].worker = 1
    /\ handed[3].worker = 0
    /\ \E w \in Workers : wjob[w] # NoJob /\ wjob[w].call = 2


\* --- C33 ---

\* C33: after a worker has been marked failed, every later train() call
\* dispatches jobs only to workers that have not failed or were respawned:
\* no job of a train() call is put for a worker that has published a
\* FailMessage (no worker is ever respawned: _respawn() is handed the set of
\* failed workers for an index and raises).
C33_NoJobForFailedWorker ==
    [][(svc = "WorkerPool" /\ call' = call + 1) =>
          \A k \in (Len(handed) + 1) .. Len(handed') : handed'[k].worker \notin crashed]_vars

\* --- C34 ---

\* history_limit of the garbage collector: the controller passes 2 at least
history_limit == 2

\* The snapshots of the id i that garbage collection has left in the store
\* (pbt/garbage.py, modelled from the specification, section 4.7): collect()
\* runs when a generation is appended and retains the snapshots of the last
\* history_limit generations; the members of generation number n have been
\* trained for n * step_size steps.
Stored(i) ==
    {database[i][k] : k \in {j \in DOMAIN database[i] :
                                database[i][j] > (generations - history_limit) * step_size}}

\* the checkpoint store holds a snapshot of the member i of the generation g
\* at the steps the member has been trained to
Persisted(g, i) == g[i].steps \in Stored(i)

\* C34: every survivor is persisted through the checkpoint store before it
\* is appended to the new generation: a select that appends a member has
\* filed the member's snapshot, every member of the generation being built
\* and of the current generation has a snapshot, and so has every member of
\* the current generation when the loop has terminated.
C34_SurvivorsPersisted ==
    /\ [][selects' = selects + 1 =>
             /\ returned'.id \in DOMAIN new_generation'
             /\ database'[returned'.id]
                   = Append(database[returned'.id], new_generation'[returned'.id].steps)]_vars
    /\ [](\A i \in DOMAIN new_generation : Persisted(new_generation, i))
    /\ [](\A i \in DOMAIN current : Persisted(current, i))

\* the loop has ended by the score criterion after an evolved generation
C34_Witness ==
    /\ left = "criteria"
    /\ end_criteria = [steps |-> None, nfe |-> None, score |-> 1]
    /\ generations = 3
    /\ Cardinality(DOMAIN current) = 2
    /\ \A i \in DOMAIN current : Persisted(current, i) /\ Stored(i) # Range(database[i])

\* --- C35 ---

\* the nfe criterion of __is_population_finished() holds
NfeReached == Truthy(end_criteria.nfe) /\ nfe >= end_criteria.nfe

\* C35: the end criteria are evaluated only at generation boundaries: the
\* run ends by its criteria only at the head of the loop, with no candidate
\* outstanding; every candidate submitted is selected and appended before
\* the loop head is reached again; and when the run has ended by the nfe
\* criterion N, N <= NFE < N + the number of candidates of the last evolved
\* generation.
C35_CriteriaAtGenerationBoundaries ==
    /\ [][(left = "no" /\ left' = "criteria") => (cpc = "loop" /\ candidates = {})]_vars
    /\ [][(cpc = "train" /\ cpc' = "loop") =>
             (candidates = {} /\ DOMAIN new_generation = DOMAIN current
              /\ current' = new_generation)]_vars
    /\ []((left = "criteria" /\ NfeReached) =>
             (/\ generations > 1
              /\ end_criteria.nfe <= nfe
              /\ nfe < end_criteria.nfe + Cardinality(DOMAIN current)))

\* a run of two members with N = 3 has ended after two evolved generations
C35_Witness ==
    /\ left = "criteria"
    /\ end_criteria = [steps |-> None, nfe |-> 3, score |-> None]
    /\ Cardinality(DOMAIN current) = 2
    /\ nfe = 4
    /\ generations = 3

\* --- C36 ---

\* a step of the controller's run or a result of train(): the controller is
\* a process that keeps running, and a training service none of whose
\* workers fails returns every candidate it was handed
Controller_step ==
    \/ Controller_start
    \/ \E c \in candidates, sc \in Scores, has_state \in BOOLEAN :
          Controller_initial_member(c, sc, has_state)
    \/ Controller_initial_done
    \/ Controller_loop
    \/ Controller_evolve
    \/ \E c \in candidates, ps \in Scores, ts \in Scores, has_state \in BOOLEAN :
          Controller_select(c, ps, ts, has_state)
    \/ Controller_generation_end

\* the runs of a controller with an nfe criterion and a population
InitCtlLiveSpec == InitCtlSpec /\ end_criteria.nfe # None /\ population_size > 0

\* the controller's runs in which the controller and the training service
\* keep going
SpecCtlLive == InitCtlLiveSpec /\ [][NextCtl]_vars /\ WF_vars(Controller_step)

\* the generations the model follows suffice to count N evaluations
C36_WithinGenerations == end_criteria.nfe <= population_size * MaxGen

C37_SameIdsAsParentGeneration ==
    /\ [][(cpc = "evolve" /\ cpc' = "train") =>
             /\ {c.id : c \in candidates'} = DOMAIN current
             /\ Cardinality(candidates') = Cardinality(DOMAIN current)]_vars
    /\ [][(generations >= 1 /\ generations' = generations + 1) =>
             /\ DOMAIN current' = DOMAIN current
             /\ Cardinality(DOMAIN current') = Cardinality(DOMAIN current)]_vars

\* DifferentialEvolution has evolved a generation of three twice
C37_Witness ==
    /\ evolver = "DifferentialEvolution"
    /\ generations = 3
    /\ cpc = "loop"
    /\ DOMAIN current = {0, 1, 2}
    /\ selects = 6

\* --- C38 ---

\* C38: whenever SHADE.select is called for a parent during a generation,
\* the CR and F maps hold an entry for the parent's id, the one this
\* generation's mutate assigned: on_generation_start leaves both maps
\* empty, mutate fills them with an entry for each member of the generation
\* and for no other id before any select, and a select changes neither.
C38_EntriesOfThisGeneration ==
    /\ [][(engine # "DifferentialEvolution" /\ epc = "start" /\ epc' = "mutate") =>
             (DOMAIN CR' = {} /\ DOMAIN F' = {})]_vars
    /\ [][(engine # "DifferentialEvolution" /\ epc = "mutate" /\ epc' = "select") =>
             (unselected' = DOMAIN generation /\ DOMAIN CR' = DOMAIN generation
              /\ DOMAIN F' = DOMAIN generation)]_vars
    /\ [][(engine # "DifferentialEvolution" /\ epc = "select") =>
             (CR' = CR /\ F' = F)]_vars
    /\ []((engine # "DifferentialEvolution" /\ epc = "select") =>
             /\ unselected \subseteq DOMAIN CR \cap DOMAIN F
             /\ DOMAIN CR = DOMAIN generation
             /\ DOMAIN F = DOMAIN generation)

\* L-SHADE has dropped a member and selects in the next generation
C38_Witness ==
    /\ engine = "LSHADE"
    /\ epc = "select"
    /\ Cardinality(DOMAIN generation) < N_INIT
    /\ unselected # {} /\ unselected # DOMAIN generation
    /\ lastSelect.op = "SHADE.select"
    /\ memop = "record"

\* --- C39 ---

C40_UpdateNeverDividesByZero ==
    [][(memop' = "update" /\ ~NoSamples(memory)) =>
          /\ SumSeq(memory.weights) > 0
          /\ ~mean_wl_raises(memory.s_f, memory.weights)
          /\ (HistoricalMemory_update_m_cr(memory) # NoneValue
                 => ~mean_wl_raises(memory.s_cr, memory.weights))
          /\ memory'.k = NextCursor(memory.k, MemorySize)]_vars

====
